---- MODULE Spec2Model ----
(***************************************************************************)
(* Model of the DocsJsonSandbox component                                  *)
(* (src/snippets/settings-sandbox.jsx): the text held by the editor, the   *)
(* two memoised values derived from it (parsedConfig, validationResult)    *)
(* and the validator they call.                                            *)
(*                                                                         *)
(* JavaScript values are tagged records (field t names the type).  A       *)
(* JavaScript string is a sequence of atoms: strings that come from the    *)
(* document are sequences of single characters, so that split, startsWith  *)
(* and the regular expressions are computed character by character; the    *)
(* literal pieces of a message template are one atom each.                 *)
(***************************************************************************)
EXTENDS Integers, Sequences, FiniteSets, TLC

(***************************************************************************)
(* JavaScript values                                                       *)
(***************************************************************************)
Undef == [t |-> "undef"]
Null == [t |-> "null"]
Str(s) == [t |-> "str", s |-> s]
Num(n) == [t |-> "num", n |-> n]
Bool(b) == [t |-> "bool", b |-> b]
Arr(s) == [t |-> "arr", a |-> s]
Obj(f) == [t |-> "obj", o |-> f]
EmptyObj == Obj(<<>>)

\* o.k for a value o that is neither null nor undefined
Get(o, k) == IF o.t = "obj" /\ k \in DOMAIN o.o THEN o.o[k] ELSE Undef

\* ToBoolean
Truthy(x) ==
  CASE x.t = "undef" -> FALSE
    [] x.t = "null" -> FALSE
    [] x.t = "bool" -> x.b
    [] x.t = "num" -> x.n # 0
    [] x.t = "str" -> x.s # <<>>
    [] OTHER -> TRUE

\* a || b
Or(a, b) == IF Truthy(a) THEN a ELSE b

IsString(x) == x.t = "str"
IsArray(x) == x.t = "arr"
\* typeof x === 'object' && x !== null
IsObjectNotNull(x) == x.t \in {"obj", "arr"}

Digit(d) == <<"0", "1", "2", "3", "4", "5", "6", "7", "8", "9">>[d + 1]

RECURSIVE NumStr(_)
NumStr(n) == IF n < 10 THEN <<Digit(n)>> ELSE NumStr(n \div 10) \o <<Digit(n % 10)>>

RECURSIVE Join(_, _)
Join(strs, sep) ==
  IF strs = <<>> THEN <<>>
  ELSE IF Len(strs) = 1 THEN strs[1]
  ELSE strs[1] \o sep \o Join(Tail(strs), sep)

\* String(x), as a template literal `${x}` computes it
RECURSIVE TemplateString(_)
TemplateString(x) ==
  CASE x.t = "str" -> x.s
    [] x.t = "undef" -> <<"undefined">>
    [] x.t = "null" -> <<"null">>
    [] x.t = "bool" -> IF x.b THEN <<"true">> ELSE <<"false">>
    [] x.t = "num" -> NumStr(x.n)
    [] x.t = "obj" -> <<"[object Object]">>
    [] x.t = "arr" ->
         Join([i \in 1..Len(x.a) |->
                 IF x.a[i].t \in {"null", "undef"} THEN <<>> ELSE TemplateString(x.a[i])],
              <<",">>)

\* s.split(sep) for a one-character separator
RECURSIVE Split(_, _)
Split(s, sep) ==
  IF \A i \in 1..Len(s) : s[i] # sep THEN <<s>>
  ELSE LET k == CHOOSE i \in 1..Len(s) : s[i] = sep /\ \A j \in 1..(i - 1) : s[j] # sep
       IN <<SubSeq(s, 1, k - 1)>> \o Split(SubSeq(s, k + 1, Len(s)), sep)

\* list.includes(x)
Includes(list, x) == \E i \in 1..Len(list) : list[i] = x

StartsWith(s, p) == Len(s) >= Len(p) /\ SubSeq(s, 1, Len(p)) = p
EndsWith(s, p) == Len(s) >= Len(p) /\ SubSeq(s, Len(s) - Len(p) + 1, Len(s)) = p

\* f(seq[1], 0, f(...)) in array order: Array.prototype.forEach with an accumulator
ForEach(seq, Op(_, _, _), acc0) ==
  LET F[i \in 0..Len(seq)] == IF i = 0 THEN acc0 ELSE Op(seq[i], i - 1, F[i - 1])
  IN F[Len(seq)]

(***************************************************************************)
(* The validator.  errors and warnings are the two arrays the code passes  *)
(* by reference; threw records that a TypeError was raised, after which    *)
(* nothing more is executed.                                               *)
(***************************************************************************)
NoMessages == [errors |-> <<>>, warnings |-> <<>>, threw |-> FALSE]
PushError(acc, m) == [acc EXCEPT !.errors = Append(@, m)]
PushWarning(acc, m) == [acc EXCEPT !.warnings = Append(@, m)]
Throw(acc) == [acc EXCEPT !.threw = TRUE]

\* x.forEach(f): a TypeError unless x is an array; stops at the first throw
ForEachOrThrow(x, Op(_, _, _), acc) ==
  IF acc.threw THEN acc
  ELSE IF ~IsArray(x) THEN Throw(acc)
  ELSE ForEach(x.a, LAMBDA e, i, a : IF a.threw THEN a ELSE Op(e, i, a), acc)

ReservedSegment == <<"m", "c", "p">>
Http == <<"h", "t", "t", "p">>
ReservedTail == <<"' uses reserved path. /mcp paths are reserved and may cause 404 errors">>
PageWarning(context, item) == context \o <<" page '">> \o item \o ReservedTail
HrefWarning(context, href) == context \o <<" href '">> \o href \o ReservedTail

\* the name a warning's context gives a node: item.group || item.item || ...
ContextName(item) ==
  Or(Get(item, "group"), Or(Get(item, "item"), Or(Get(item, "tab"),
     Or(Get(item, "anchor"), Get(item, "dropdown")))))

\* the title renderNavigationItems shows for a node:
\* item.group || item.tab || item.anchor || item.dropdown || item.item || 'Unknown'
title(item) ==
  Or(Get(item, "group"), Or(Get(item, "tab"), Or(Get(item, "anchor"),
     Or(Get(item, "dropdown"), Or(Get(item, "item"), Str(<<"Unknown">>))))))

NavigationItemContext(item) ==
  <<"Navigation item '">> \o TemplateString(ContextName(item)) \o <<"'">>
TabContext(item) == <<"Tab '">> \o TemplateString(Get(item, "tab")) \o <<"'">>

\* context || fallback, on strings
OrContext(context, fallback) == IF context # <<>> THEN context ELSE fallback

\* path.split('/').includes('mcp')
HasReservedSegment_Substring(path) ==
  \E i \in 1..Len(path) : StartsWith(SubSeq(path, i, Len(path)), ReservedSegment)
HasReservedSegment(path) == Includes(Split(path, "/"), ReservedSegment)

\* !href.startsWith('http')
IsRelative_Always(href) == TRUE
IsRelative(href) == ~StartsWith(href, Http)

RECURSIVE checkNavigationPaths(_, _, _)
\* if (item[key]) checkNavigationPaths(item[key], warnings, context)
CheckChildren(item, key, warnings, context) ==
  IF Truthy(Get(item, key))
  THEN checkNavigationPaths(Get(item, key), warnings, context)
  ELSE warnings
\* the href branch
CheckHref(href, warnings, context) ==
  IF /\ Truthy(href)
     /\ IsString(href)
     /\ IsRelative(href.s)
     /\ HasReservedSegment(href.s)
  THEN Append(warnings, HrefWarning(context, href.s))
  ELSE warnings
checkNavigationPaths(items, warnings, context) ==
  IF ~IsArray(items) THEN warnings
  ELSE ForEach(items.a,
         LAMBDA item, index, w :
           IF IsString(item)
           THEN IF HasReservedSegment(item.s)
                THEN Append(w, PageWarning(context, item.s))
                ELSE w
           ELSE IF IsObjectNotNull(item)
           THEN CheckHref(Get(item, "href"),
                  CheckChildren(item, "menu",
                    CheckChildren(item, "groups",
                      CheckChildren(item, "pages", w,
                        OrContext(context, NavigationItemContext(item))),
                      context),
                    OrContext(context, TabContext(item))),
                  context)
           ELSE w,
         warnings)

\* checkNavigationPaths appending to the warnings array of acc
Scan(acc, items, context) ==
  IF acc.threw THEN acc
  ELSE [acc EXCEPT !.warnings = checkNavigationPaths(items, @, context)]

Chars_mint == <<"m", "i", "n", "t">>
Chars_maple == <<"m", "a", "p", "l", "e">>
Chars_palm == <<"p", "a", "l", "m">>
Chars_willow == <<"w", "i", "l", "l", "o", "w">>
Chars_linden == <<"l", "i", "n", "d", "e", "n">>
Chars_almond == <<"a", "l", "m", "o", "n", "d">>
Chars_aspen == <<"a", "s", "p", "e", "n">>
validThemes ==
  <<Chars_mint, Chars_maple, Chars_palm, Chars_willow, Chars_linden, Chars_almond, Chars_aspen>>

ThemeRequired ==
  <<"'theme' is required. Must be one of: mint, maple, palm, willow, linden, almond, aspen">>
InvalidTheme(theme) ==
  <<"Invalid theme '">> \o TemplateString(theme) \o <<"'. Must be one of: ">>
    \o Join(validThemes, <<", ">>)
NameRequired ==
  <<"'name' is required. This is the name of your project, organization, or product">>

validateRequiredFields_AnyTheme(config, acc) ==
  IF acc.threw THEN acc
  ELSE LET a1 == IF ~Truthy(Get(config, "theme")) THEN PushError(acc, ThemeRequired) ELSE acc
       IN IF ~Truthy(Get(config, "name")) THEN PushError(a1, NameRequired) ELSE a1

validateRequiredFields(config, acc) ==
  IF acc.threw THEN acc
  ELSE LET theme == Get(config, "theme")
           a1 == IF ~Truthy(theme) THEN PushError(acc, ThemeRequired)
                 ELSE IF ~(IsString(theme) /\ Includes(validThemes, theme.s))
                 THEN PushError(acc, InvalidTheme(theme))
                 ELSE acc
       IN IF ~Truthy(Get(config, "name")) THEN PushError(a1, NameRequired) ELSE a1

HexDigits ==
  {"0", "1", "2", "3", "4", "5", "6", "7", "8", "9",
   "a", "b", "c", "d", "e", "f", "A", "B", "C", "D", "E", "F"}
\* /^#[0-9A-Fa-f]{6}$/
MatchesHexColor(s) == Len(s) = 7 /\ s[1] = "#" /\ \A i \in 2..7 : s[i] \in HexDigits

PrimaryRequired ==
  <<"'colors.primary' is required. Must be a hex color code starting with #">>
PrimaryInvalid == <<"'colors.primary' must be a valid hex color code (e.g., #ff0000)">>
ModeInvalid(mode) ==
  <<"'colors.", mode, "' must be a valid hex color code (e.g., #ff0000)">>

validateColors(config, acc) ==
  IF acc.threw THEN acc
  ELSE LET colors == Get(config, "colors")
           primary == Get(colors, "primary")
           a1 == IF ~Truthy(colors) \/ ~Truthy(primary) THEN PushError(acc, PrimaryRequired)
                 ELSE IF ~IsString(primary) THEN Throw(acc)
                 ELSE IF ~MatchesHexColor(primary.s) THEN PushError(acc, PrimaryInvalid)
                 ELSE acc
           CheckMode(mode, a) ==
             IF a.threw \/ ~Truthy(Get(colors, mode)) THEN a
             ELSE IF ~IsString(Get(colors, mode)) THEN Throw(a)
             ELSE IF ~MatchesHexColor(Get(colors, mode).s) THEN PushError(a, ModeInvalid(mode))
             ELSE a
       IN IF Truthy(colors) THEN CheckMode("dark", CheckMode("light", a1)) ELSE a1

NavigationRequired == <<"'navigation' is required. Define your documentation structure">>
MissingProperty(what, index, prop) ==
  <<what, " at index ">> \o NumStr(index) \o <<" is missing '", prop, "' property">>
GroupMissingPages(group) ==
  <<"Navigation group '">> \o TemplateString(Get(group, "group")) \o <<"' is missing 'pages' array">>
MenuItemMissing(menuIndex, tab) ==
  <<"Menu item at index ">> \o NumStr(menuIndex) \o <<" in tab '">>
    \o TemplateString(Get(tab, "tab")) \o <<"' is missing 'item' property">>
GlobalAnchorMissingHref(anchor) ==
  <<"Global anchor '">> \o TemplateString(Get(anchor, "anchor")) \o <<"' is missing 'href' property">>
GlobalAnchorNotExternal(anchor) ==
  <<"Global anchor '">> \o TemplateString(Get(anchor, "anchor"))
    \o <<"' href must be an external URL starting with http/https">>

validLanguages ==
  <<(<<"a", "r">>), (<<"c", "n">>), (<<"z", "h", "-", "H", "a", "n", "t">>), (<<"e", "n">>),
    (<<"f", "r">>), (<<"d", "e">>), (<<"i", "d">>), (<<"i", "t">>), (<<"j", "p">>),
    (<<"k", "o">>), (<<"p", "t", "-", "B", "R">>), (<<"r", "u">>), (<<"e", "s">>),
    (<<"t", "r">>)>>
LanguageUnsupported(code) ==
  <<"Language code '">> \o TemplateString(code) \o <<"' may not be supported. Supported codes: ">>
    \o Join(validLanguages, <<", ">>)

\* the five scans of one versions / languages entry, under one context
ScanScope(acc, scope, context) ==
  LET ScanKey(a, key) == IF Truthy(Get(scope, key)) THEN Scan(a, Get(scope, key), context) ELSE a
  IN ScanKey(ScanKey(ScanKey(ScanKey(ScanKey(acc, "pages"), "groups"), "tabs"), "anchors"),
             "dropdowns")

\* config.navigation.pages
RootPages(navigation, acc) ==
  IF acc.threw \/ ~Truthy(Get(navigation, "pages")) THEN acc
  ELSE Scan(acc, Get(navigation, "pages"), <<"Root navigation">>)

GroupEntry(group, index, acc) ==
  IF ~Truthy(Get(group, "group"))
  THEN PushError(acc, MissingProperty("Navigation group", index, "group"))
  ELSE acc
GroupPages(group, acc) ==
  IF ~Truthy(Get(group, "pages")) \/ ~IsArray(Get(group, "pages"))
  THEN PushError(acc, GroupMissingPages(group))
  ELSE acc
\* config.navigation.groups
Groups(navigation, acc) ==
  IF acc.threw \/ ~Truthy(Get(navigation, "groups")) THEN acc
  ELSE Scan(ForEachOrThrow(Get(navigation, "groups"),
              LAMBDA group, index, a :
                IF group.t = "null" THEN Throw(a)
                ELSE GroupPages(group, GroupEntry(group, index, a)),
              acc),
            Get(navigation, "groups"), <<>>)

TabEntry(tab, index, acc) ==
  IF ~Truthy(Get(tab, "tab"))
  THEN PushError(acc, MissingProperty("Navigation tab", index, "tab"))
  ELSE acc
TabMenu(tab, acc) ==
  IF ~Truthy(Get(tab, "menu")) THEN acc
  ELSE ForEachOrThrow(Get(tab, "menu"),
         LAMBDA menuItem, menuIndex, b :
           IF menuItem.t = "null" THEN Throw(b)
           ELSE IF ~Truthy(Get(menuItem, "item"))
           THEN PushError(b, MenuItemMissing(menuIndex, tab))
           ELSE b,
         acc)
\* config.navigation.tabs
Tabs(navigation, acc) ==
  IF acc.threw \/ ~Truthy(Get(navigation, "tabs")) THEN acc
  ELSE Scan(ForEachOrThrow(Get(navigation, "tabs"),
              LAMBDA tab, index, a :
                IF tab.t = "null" THEN Throw(a)
                ELSE TabMenu(tab, TabEntry(tab, index, a)),
              acc),
            Get(navigation, "tabs"), <<>>)

\* config.navigation.anchors and config.navigation.dropdowns: forEach with the
\* missing-name check, then the scan
NamedEntries(acc, list, what, prop) ==
  IF acc.threw \/ ~Truthy(list) THEN acc
  ELSE Scan(ForEachOrThrow(list,
              LAMBDA entry, index, a :
                IF entry.t = "null" THEN Throw(a)
                ELSE IF ~Truthy(Get(entry, prop))
                THEN PushError(a, MissingProperty(what, index, prop))
                ELSE a,
              acc),
            list, <<>>)

\* config.navigation.versions
Versions(navigation, acc) ==
  IF acc.threw \/ ~Truthy(Get(navigation, "versions")) THEN acc
  ELSE ForEachOrThrow(Get(navigation, "versions"),
         LAMBDA version, index, a :
           IF version.t = "null" THEN Throw(a)
           ELSE ScanScope(IF ~Truthy(Get(version, "version"))
                          THEN PushError(a, MissingProperty("Navigation version", index, "version"))
                          ELSE a,
                          version,
                          <<"Version '">> \o TemplateString(Get(version, "version")) \o <<"'">>),
         acc)

LanguageEntry(code, index, acc) ==
  IF ~Truthy(code)
  THEN PushError(acc, MissingProperty("Navigation language", index, "language"))
  ELSE IF ~(IsString(code) /\ Includes(validLanguages, code.s))
  THEN PushWarning(acc, LanguageUnsupported(code))
  ELSE acc
\* config.navigation.languages
Languages(navigation, acc) ==
  IF acc.threw \/ ~Truthy(Get(navigation, "languages")) THEN acc
  ELSE ForEachOrThrow(Get(navigation, "languages"),
         LAMBDA language, index, a :
           IF language.t = "null" THEN Throw(a)
           ELSE ScanScope(LanguageEntry(Get(language, "language"), index, a),
                          language,
                          <<"Language '">> \o TemplateString(Get(language, "language")) \o <<"'">>),
         acc)

GlobalAnchorEntry(anchor, index, acc) ==
  IF ~Truthy(Get(anchor, "anchor"))
  THEN PushError(acc, MissingProperty("Global anchor", index, "anchor"))
  ELSE acc
GlobalAnchorHref(anchor, href, acc) ==
  IF ~Truthy(href) THEN PushError(acc, GlobalAnchorMissingHref(anchor))
  ELSE IF ~IsString(href) THEN Throw(acc)
  ELSE IF ~StartsWith(href.s, Http) THEN PushError(acc, GlobalAnchorNotExternal(anchor))
  ELSE acc
\* config.navigation.global?.anchors
GlobalAnchorsOf(global) ==
  IF global.t \in {"null", "undef"} THEN Undef ELSE Get(global, "anchors")
GlobalAnchors(globalAnchors, acc) ==
  IF acc.threw \/ ~Truthy(globalAnchors) THEN acc
  ELSE Scan(ForEachOrThrow(globalAnchors,
              LAMBDA anchor, index, a :
                IF anchor.t = "null" THEN Throw(a)
                ELSE GlobalAnchorHref(anchor, Get(anchor, "href"),
                                      GlobalAnchorEntry(anchor, index, a)),
              acc),
            globalAnchors, <<"Global anchors">>)

\* the same checks with the global anchors first
NavigationChecks_GlobalFirst(navigation, acc) ==
  Languages(navigation,
    Versions(navigation,
      NamedEntries(
        NamedEntries(
          Tabs(navigation, Groups(navigation, RootPages(navigation,
            GlobalAnchors(GlobalAnchorsOf(Get(navigation, "global")), acc)))),
          Get(navigation, "anchors"), "Navigation anchor", "anchor"),
        Get(navigation, "dropdowns"), "Navigation dropdown", "dropdown")))

NavigationChecks(navigation, acc) ==
  GlobalAnchors(GlobalAnchorsOf(Get(navigation, "global")),
    Languages(navigation,
      Versions(navigation,
        NamedEntries(
          NamedEntries(
            Tabs(navigation, Groups(navigation, RootPages(navigation, acc))),
            Get(navigation, "anchors"), "Navigation anchor", "anchor"),
          Get(navigation, "dropdowns"), "Navigation dropdown", "dropdown"))))

validateNavigation(config, acc) ==
  IF acc.threw THEN acc
  ELSE IF ~Truthy(Get(config, "navigation")) THEN PushError(acc, NavigationRequired)
  ELSE NavigationChecks(Get(config, "navigation"), acc)

UpperLetters ==
  <<"A", "B", "C", "D", "E", "F", "G", "H", "I", "J", "K", "L", "M",
    "N", "O", "P", "Q", "R", "S", "T", "U", "V", "W", "X", "Y", "Z">>
LowerLetters ==
  <<"a", "b", "c", "d", "e", "f", "g", "h", "i", "j", "k", "l", "m",
    "n", "o", "p", "q", "r", "s", "t", "u", "v", "w", "x", "y", "z">>
DigitChars == {"0", "1", "2", "3", "4", "5", "6", "7", "8", "9"}
LowerChar(c) ==
  IF \E i \in 1..26 : UpperLetters[i] = c
  THEN LowerLetters[CHOOSE i \in 1..26 : UpperLetters[i] = c]
  ELSE c
Lower(s) == [i \in 1..Len(s) |-> LowerChar(s[i])]

\* /^https?:\/\//
MatchesHttpUrl(s) ==
  \/ StartsWith(s, <<"h", "t", "t", "p", ":", "/", "/">>)
  \/ StartsWith(s, <<"h", "t", "t", "p", "s", ":", "/", "/">>)
\* /\.(ico|png|svg)$/i
MatchesIconFile(s) ==
  \/ EndsWith(Lower(s), <<".", "i", "c", "o">>)
  \/ EndsWith(Lower(s), <<".", "p", "n", "g">>)
  \/ EndsWith(Lower(s), <<".", "s", "v", "g">>)
\* /^<prefix>[A-Z0-9]+$/
MatchesId(s, prefix) ==
  /\ StartsWith(s, prefix)
  /\ Len(s) > Len(prefix)
  /\ \A i \in (Len(prefix) + 1)..Len(s) :
       s[i] \in DigitChars \/ \E j \in 1..26 : UpperLetters[j] = s[i]

LogoHrefWarning ==
  <<"Logo 'href' should be a complete URL starting with http:// or https://">>
FaviconWarning == <<"Favicon should typically be an .ico, .png, or .svg file">>

validateAssets(config, acc) ==
  IF acc.threw THEN acc
  ELSE LET logo == Get(config, "logo")
           favicon == Get(config, "favicon")
           a1 == IF Truthy(logo) /\ IsObjectNotNull(logo) /\ Truthy(Get(logo, "href"))
                 THEN IF ~IsString(Get(logo, "href")) THEN Throw(acc)
                      ELSE IF ~MatchesHttpUrl(Get(logo, "href").s)
                      THEN PushWarning(acc, LogoHrefWarning)
                      ELSE acc
                 ELSE acc
       IN IF a1.threw \/ ~Truthy(favicon) THEN a1
          ELSE IF ~IsString(favicon) THEN Throw(a1)
          ELSE IF ~MatchesIconFile(favicon.s) THEN PushWarning(a1, FaviconWarning)
          ELSE a1

Ga4Warning == <<"Google Analytics 4 measurement ID should follow format 'G-XXXXXXXXX'">>
GtmWarning == <<"Google Tag Manager container ID should follow format 'GTM-XXXXXXX'">>

validateIntegrations(config, acc) ==
  IF acc.threw \/ ~Truthy(Get(config, "integrations")) THEN acc
  ELSE LET integrations == Get(config, "integrations")
           CheckId(a, service, key, prefix, warning) ==
             LET id == Get(Get(integrations, service), key)
             IN IF a.threw \/ ~Truthy(Get(integrations, service)) \/ ~Truthy(id) THEN a
                ELSE IF ~IsString(id) THEN Throw(a)
                ELSE IF ~MatchesId(id.s, prefix) THEN PushWarning(a, warning)
                ELSE a
       IN CheckId(CheckId(acc, "ga4", "measurementId", <<"G", "-">>, Ga4Warning),
                  "gtm", "containerId", <<"G", "T", "M", "-">>, GtmWarning)

SchemaNudge ==
  <<"Consider adding \"$schema\": \"https://mintlify.com/docs.json\" for better IDE support.">>
DescriptionNudge == <<"Consider adding a \"description\" for better SEO and AI indexing.">>
FaviconNudge == <<"Consider adding a \"favicon\" for better branding.">>
LogoNudge == <<"Consider adding a \"logo\" configuration for better branding.">>

validateBestPractices_NoFavicon(config, acc) ==
  IF acc.threw THEN acc
  ELSE LET Nudge(a, key, m) == IF ~Truthy(Get(config, key)) THEN PushWarning(a, m) ELSE a
       IN Nudge(Nudge(Nudge(acc, "$schema", SchemaNudge), "description", DescriptionNudge),
                "logo", LogoNudge)

validateBestPractices(config, acc) ==
  IF acc.threw THEN acc
  ELSE LET Nudge(a, key, m) == IF ~Truthy(Get(config, key)) THEN PushWarning(a, m) ELSE a
       IN Nudge(Nudge(Nudge(Nudge(acc, "$schema", SchemaNudge), "description", DescriptionNudge),
                      "favicon", FaviconNudge),
                "logo", LogoNudge)

RunChecks_StopsWithoutNavigation(config) ==
  IF ~Truthy(Get(config, "navigation"))
  THEN validateNavigation(config,
         validateColors(config, validateRequiredFields(config, NoMessages)))
  ELSE validateBestPractices(config,
         validateIntegrations(config,
           validateAssets(config,
             validateNavigation(config,
               validateColors(config,
                 validateRequiredFields(config, NoMessages))))))

RunChecks_NavigationBeforeColors(config) ==
  validateBestPractices(config,
    validateIntegrations(config,
      validateAssets(config,
        validateColors(config,
          validateNavigation(config,
            validateRequiredFields(config, NoMessages))))))

\* the two arrays after all six checks, or threw = TRUE if one of them raised
RunChecks(config) ==
  validateBestPractices(config,
    validateIntegrations(config,
      validateAssets(config,
        validateNavigation(config,
          validateColors(config,
            validateRequiredFields(config, NoMessages))))))

\* what a call of validateDocsJson yields: a ValidationResult, or a thrown TypeError
Thrown == [kind |-> "thrown"]
ValidationResult(errors, warnings, isValid) ==
  [kind |-> "result", errors |-> errors, warnings |-> warnings, isValid |-> isValid]

validateDocsJson_WarningsCount(config) ==
  LET acc == RunChecks(config)
  IN IF acc.threw THEN Thrown
     ELSE ValidationResult(acc.errors, acc.warnings,
                           Len(acc.errors) = 0 /\ Len(acc.warnings) = 0)

validateDocsJson(config) ==
  LET acc == RunChecks(config)
  IN IF acc.threw THEN Thrown
     ELSE ValidationResult(acc.errors, acc.warnings, Len(acc.errors) = 0)

(***************************************************************************)
(* Text.  The editor's text is a sequence of lexical tokens: punctuation,  *)
(* the literals null / true / false, numbers, string literals, runs of     *)
(* white space ("ws") and bare words that are no JSON token ("word").      *)
(***************************************************************************)
Tok(k) == [k |-> k]
NumTok(n) == [k |-> "num", n |-> n]
StrTok(s) == [k |-> "str", s |-> s]
WordTok(w) == [k |-> "word", w |-> w]
Ws == Tok("ws")

\* text.trim()
RECURSIVE TrimLeft(_)
TrimLeft(text) == IF text # <<>> /\ text[1].k = "ws" THEN TrimLeft(Tail(text)) ELSE text
RECURSIVE TrimRight(_)
TrimRight(text) ==
  IF text # <<>> /\ text[Len(text)].k = "ws"
  THEN TrimRight(SubSeq(text, 1, Len(text) - 1))
  ELSE text
Trim(text) == TrimRight(TrimLeft(text))

\* a property name, as the one string it is
RECURSIVE KeyName(_)
KeyName(atoms) == IF atoms = <<>> THEN "" ELSE atoms[1] \o KeyName(Tail(atoms))

\* JSON.parse: the value, or the SyntaxError with its message
ParseOk(val, next) == [ok |-> TRUE, val |-> val, next |-> next]
ParseFail(message) == [ok |-> FALSE, message |-> message]
UnexpectedEnd == <<"Unexpected end of JSON input">>
TokenText(tok) == IF tok.k = "num" THEN NumStr(tok.n)
                  ELSE IF tok.k = "str" THEN <<"\"">>
                  ELSE IF tok.k = "word" THEN <<tok.w>>
                  ELSE <<tok.k>>
UnexpectedToken(text, i) ==
  <<"Unexpected token ">> \o TokenText(text[i]) \o <<" in JSON at position ">> \o NumStr(i - 1)

RECURSIVE SkipWs(_, _)
SkipWs(text, i) == IF i <= Len(text) /\ text[i].k = "ws" THEN SkipWs(text, i + 1) ELSE i

RECURSIVE ParseValue(_, _), ParseElements(_, _, _), ParseMembers(_, _, _)
ParseValue(text, i0) ==
  LET i == SkipWs(text, i0)
  IN IF i > Len(text) THEN ParseFail(UnexpectedEnd)
     ELSE LET tok == text[i]
          IN CASE tok.k = "null" -> ParseOk(Null, i + 1)
               [] tok.k = "true" -> ParseOk(Bool(TRUE), i + 1)
               [] tok.k = "false" -> ParseOk(Bool(FALSE), i + 1)
               [] tok.k = "num" -> ParseOk(Num(tok.n), i + 1)
               [] tok.k = "str" -> ParseOk(Str(tok.s), i + 1)
               [] tok.k = "[" ->
                    LET j == SkipWs(text, i + 1)
                    IN IF j <= Len(text) /\ text[j].k = "]" THEN ParseOk(Arr(<<>>), j + 1)
                       ELSE ParseElements(text, j, <<>>)
               [] tok.k = "{" ->
                    LET j == SkipWs(text, i + 1)
                    IN IF j <= Len(text) /\ text[j].k = "}" THEN ParseOk(EmptyObj, j + 1)
                       ELSE ParseMembers(text, j, <<>>)
               [] OTHER -> ParseFail(UnexpectedToken(text, i))

ParseElements(text, i, elems) ==
  LET r == ParseValue(text, i)
  IN IF ~r.ok THEN r
     ELSE LET j == SkipWs(text, r.next)
          IN IF j > Len(text) THEN ParseFail(UnexpectedEnd)
             ELSE IF text[j].k = "," THEN ParseElements(text, j + 1, Append(elems, r.val))
             ELSE IF text[j].k = "]" THEN ParseOk(Arr(Append(elems, r.val)), j + 1)
             ELSE ParseFail(UnexpectedToken(text, j))

ParseMembers(text, i0, members) ==
  LET i == SkipWs(text, i0)
  IN IF i > Len(text) THEN ParseFail(UnexpectedEnd)
     ELSE IF text[i].k # "str" THEN ParseFail(UnexpectedToken(text, i))
     ELSE LET c == SkipWs(text, i + 1)
          IN IF c > Len(text) THEN ParseFail(UnexpectedEnd)
             ELSE IF text[c].k # ":" THEN ParseFail(UnexpectedToken(text, c))
             ELSE LET r == ParseValue(text, c + 1)
                  IN IF ~r.ok THEN r
                     ELSE LET j == SkipWs(text, r.next)
                              \* a repeated key keeps its last value
                              now == (KeyName(text[i].s) :> r.val) @@ members
                          IN IF j > Len(text) THEN ParseFail(UnexpectedEnd)
                             ELSE IF text[j].k = "," THEN ParseMembers(text, j + 1, now)
                             ELSE IF text[j].k = "}" THEN ParseOk(Obj(now), j + 1)
                             ELSE ParseFail(UnexpectedToken(text, j))

JSONparse(text) ==
  LET r == ParseValue(text, 1)
  IN IF ~r.ok THEN r
     ELSE LET j == SkipWs(text, r.next)
          IN IF j <= Len(text) THEN ParseFail(UnexpectedToken(text, j)) ELSE r

\* the order in which JSON.stringify writes the keys of the documents below
KeyOrder ==
  <<"$schema", "theme", "name", "description", "colors", "primary", "light", "dark",
    "logo", "favicon", "navigation", "global", "versions", "version", "languages",
    "language", "tabs", "tab", "menu", "item", "anchors", "anchor", "dropdowns",
    "dropdown", "group", "icon", "openapi", "url", "pages", "groups", "href",
    "integrations", "ga4", "measurementId", "gtm", "containerId", "extra">>

RECURSIVE Flatten(_, _)
Flatten(parts, sep) ==
  IF parts = <<>> THEN <<>>
  ELSE IF Len(parts) = 1 THEN parts[1]
  ELSE parts[1] \o sep \o Flatten(Tail(parts), sep)

\* JSON.stringify(value, null, 2)
RECURSIVE JSONstringify(_)
JSONstringify(x) ==
  CASE x.t = "null" -> <<Tok("null")>>
    [] x.t = "bool" -> IF x.b THEN <<Tok("true")>> ELSE <<Tok("false")>>
    [] x.t = "num" -> <<NumTok(x.n)>>
    [] x.t = "str" -> <<StrTok(x.s)>>
    [] x.t = "arr" ->
         IF x.a = <<>> THEN <<Tok("["), Tok("]")>>
         ELSE <<Tok("["), Ws>>
                \o Flatten([i \in 1..Len(x.a) |-> JSONstringify(x.a[i])], <<Tok(","), Ws>>)
                \o <<Ws, Tok("]")>>
    [] x.t = "obj" ->
         LET keys == SelectSeq(KeyOrder, LAMBDA k : k \in DOMAIN x.o)
         IN IF keys = <<>> THEN <<Tok("{"), Tok("}")>>
            ELSE <<Tok("{"), Ws>>
                   \o Flatten([i \in 1..Len(keys) |->
                                 <<StrTok(<<keys[i]>>), Tok(":"), Ws>> \o JSONstringify(x.o[keys[i]])],
                              <<Tok(","), Ws>>)
                   \o <<Ws, Tok("}")>>

(***************************************************************************)
(* The documents the component carries: the default configuration set on   *)
(* mount and the four examples of loadExample.                             *)
(***************************************************************************)
defaultConfig ==
  Obj(
    "$schema" :> Str(<<"h", "t", "t", "p", "s", ":", "/", "/", "m", "i", "n", "t", "l", "i", "f", "y", ".", "c", "o", "m", "/", "d", "o", "c", "s", ".", "j", "s", "o", "n">>) @@
    "theme" :> Str(<<"m", "i", "n", "t">>) @@
    "name" :> Str(<<"M", "y", " ", "D", "o", "c", "u", "m", "e", "n", "t", "a", "t", "i", "o", "n">>) @@
    "colors" :> Obj(
      "primary" :> Str(<<"#", "0", "0", "6", "6", "c", "c">>)) @@
    "navigation" :> Obj(
      "groups" :> Arr(<<
        Obj(
          "group" :> Str(<<"G", "e", "t", "t", "i", "n", "g", " ", "S", "t", "a", "r", "t", "e", "d">>) @@
          "pages" :> Arr(<<
            Str(<<"i", "n", "t", "r", "o", "d", "u", "c", "t", "i", "o", "n">>),
            Str(<<"q", "u", "i", "c", "k", "s", "t", "a", "r", "t">>)>>)),
        Obj(
          "group" :> Str(<<"A", "P", "I", " ", "R", "e", "f", "e", "r", "e", "n", "c", "e">>) @@
          "pages" :> Arr(<<
            Str(<<"a", "p", "i", "/", "a", "u", "t", "h", "e", "n", "t", "i", "c", "a", "t", "i", "o", "n">>),
            Str(<<"a", "p", "i", "/", "u", "s", "e", "r", "s">>)>>))>>)))

example_minimal ==
  Obj(
    "$schema" :> Str(<<"h", "t", "t", "p", "s", ":", "/", "/", "m", "i", "n", "t", "l", "i", "f", "y", ".", "c", "o", "m", "/", "d", "o", "c", "s", ".", "j", "s", "o", "n">>) @@
    "theme" :> Str(<<"m", "i", "n", "t">>) @@
    "name" :> Str(<<"M", "i", "n", "i", "m", "a", "l", " ", "D", "o", "c", "s">>) @@
    "colors" :> Obj(
      "primary" :> Str(<<"#", "1", "0", "B", "9", "8", "1">>)) @@
    "navigation" :> Obj(
      "pages" :> Arr(<<
        Str(<<"i", "n", "t", "r", "o", "d", "u", "c", "t", "i", "o", "n">>),
        Str(<<"q", "u", "i", "c", "k", "s", "t", "a", "r", "t">>)>>)))

example_complete ==
  Obj(
    "$schema" :> Str(<<"h", "t", "t", "p", "s", ":", "/", "/", "m", "i", "n", "t", "l", "i", "f", "y", ".", "c", "o", "m", "/", "d", "o", "c", "s", ".", "j", "s", "o", "n">>) @@
    "theme" :> Str(<<"m", "a", "p", "l", "e">>) @@
    "name" :> Str(<<"C", "o", "m", "p", "l", "e", "t", "e", " ", "D", "o", "c", "u", "m", "e", "n", "t", "a", "t", "i", "o", "n">>) @@
    "description" :> Str(<<"C", "o", "m", "p", "r", "e", "h", "e", "n", "s", "i", "v", "e", " ", "d", "o", "c", "u", "m", "e", "n", "t", "a", "t", "i", "o", "n", " ", "s", "i", "t", "e", " ", "w", "i", "t", "h", " ", "a", "l", "l", " ", "n", "a", "v", "i", "g", "a", "t", "i", "o", "n", " ", "f", "e", "a", "t", "u", "r", "e", "s">>) @@
    "colors" :> Obj(
      "primary" :> Str(<<"#", "F", "5", "9", "E", "0", "B">>) @@
      "light" :> Str(<<"#", "F", "C", "D", "3", "4", "D">>) @@
      "dark" :> Str(<<"#", "D", "9", "7", "7", "0", "6">>)) @@
    "logo" :> Obj(
      "light" :> Str(<<"/", "l", "o", "g", "o", "-", "l", "i", "g", "h", "t", ".", "p", "n", "g">>) @@
      "dark" :> Str(<<"/", "l", "o", "g", "o", "-", "d", "a", "r", "k", ".", "p", "n", "g">>) @@
      "href" :> Str(<<"h", "t", "t", "p", "s", ":", "/", "/", "e", "x", "a", "m", "p", "l", "e", ".", "c", "o", "m">>)) @@
    "favicon" :> Str(<<"/", "f", "a", "v", "i", "c", "o", "n", ".", "i", "c", "o">>) @@
    "navigation" :> Obj(
      "global" :> Obj(
        "anchors" :> Arr(<<
          Obj(
            "anchor" :> Str(<<"C", "o", "m", "m", "u", "n", "i", "t", "y">>) @@
            "icon" :> Str(<<"u", "s", "e", "r", "s">>) @@
            "href" :> Str(<<"h", "t", "t", "p", "s", ":", "/", "/", "d", "i", "s", "c", "o", "r", "d", ".", "g", "g", "/", "e", "x", "a", "m", "p", "l", "e">>)),
          Obj(
            "anchor" :> Str(<<"B", "l", "o", "g">>) @@
            "icon" :> Str(<<"n", "e", "w", "s", "p", "a", "p", "e", "r">>) @@
            "href" :> Str(<<"h", "t", "t", "p", "s", ":", "/", "/", "e", "x", "a", "m", "p", "l", "e", ".", "c", "o", "m", "/", "b", "l", "o", "g">>))>>)) @@
      "versions" :> Arr(<<
        Obj(
          "version" :> Str(<<"2", ".", "0">>) @@
          "groups" :> Arr(<<
            Obj(
              "group" :> Str(<<"G", "e", "t", "t", "i", "n", "g", " ", "S", "t", "a", "r", "t", "e", "d">>) @@
              "icon" :> Str(<<"p", "l", "a", "y">>) @@
              "pages" :> Arr(<<
                Str(<<"v", "2", "/", "i", "n", "t", "r", "o", "d", "u", "c", "t", "i", "o", "n">>),
                Str(<<"v", "2", "/", "q", "u", "i", "c", "k", "s", "t", "a", "r", "t">>)>>))>>)),
        Obj(
          "version" :> Str(<<"1", ".", "0">>) @@
          "groups" :> Arr(<<
            Obj(
              "group" :> Str(<<"G", "e", "t", "t", "i", "n", "g", " ", "S", "t", "a", "r", "t", "e", "d">>) @@
              "pages" :> Arr(<<
                Str(<<"v", "1", "/", "i", "n", "t", "r", "o", "d", "u", "c", "t", "i", "o", "n">>),
                Str(<<"v", "1", "/", "q", "u", "i", "c", "k", "s", "t", "a", "r", "t">>)>>))>>))>>) @@
      "tabs" :> Arr(<<
        Obj(
          "tab" :> Str(<<"D", "o", "c", "u", "m", "e", "n", "t", "a", "t", "i", "o", "n">>) @@
          "groups" :> Arr(<<
            Obj(
              "group" :> Str(<<"G", "e", "t", "t", "i", "n", "g", " ", "S", "t", "a", "r", "t", "e", "d">>) @@
              "icon" :> Str(<<"p", "l", "a", "y">>) @@
              "pages" :> Arr(<<
                Str(<<"i", "n", "t", "r", "o", "d", "u", "c", "t", "i", "o", "n">>),
                Str(<<"q", "u", "i", "c", "k", "s", "t", "a", "r", "t">>),
                Str(<<"i", "n", "s", "t", "a", "l", "l", "a", "t", "i", "o", "n">>)>>)),
            Obj(
              "group" :> Str(<<"A", "d", "v", "a", "n", "c", "e", "d">>) @@
              "icon" :> Str(<<"c", "o", "g">>) @@
              "pages" :> Arr(<<
                Str(<<"a", "d", "v", "a", "n", "c", "e", "d", "/", "c", "o", "n", "f", "i", "g", "u", "r", "a", "t", "i", "o", "n">>),
                Str(<<"a", "d", "v", "a", "n", "c", "e", "d", "/", "c", "u", "s", "t", "o", "m", "i", "z", "a", "t", "i", "o", "n">>)>>))>>)),
        Obj(
          "tab" :> Str(<<"A", "P", "I", " ", "R", "e", "f", "e", "r", "e", "n", "c", "e">>) @@
          "menu" :> Arr(<<
            Obj(
              "item" :> Str(<<"A", "u", "t", "h", "e", "n", "t", "i", "c", "a", "t", "i", "o", "n">>) @@
              "icon" :> Str(<<"k", "e", "y">>) @@
              "pages" :> Arr(<<
                Str(<<"a", "p", "i", "/", "a", "u", "t", "h", "/", "o", "v", "e", "r", "v", "i", "e", "w">>),
                Str(<<"a", "p", "i", "/", "a", "u", "t", "h", "/", "t", "o", "k", "e", "n", "s">>)>>)),
            Obj(
              "item" :> Str(<<"E", "n", "d", "p", "o", "i", "n", "t", "s">>) @@
              "icon" :> Str(<<"g", "l", "o", "b", "e">>) @@
              "groups" :> Arr(<<
                Obj(
                  "group" :> Str(<<"U", "s", "e", "r", "s">>) @@
                  "pages" :> Arr(<<
                    Str(<<"G", "E", "T", " ", "/", "u", "s", "e", "r", "s">>),
                    Str(<<"P", "O", "S", "T", " ", "/", "u", "s", "e", "r", "s">>),
                    Str(<<"D", "E", "L", "E", "T", "E", " ", "/", "u", "s", "e", "r", "s", "/", "{", "i", "d", "}">>)>>))>>))>>))>>) @@
      "anchors" :> Arr(<<
        Obj(
          "anchor" :> Str(<<"H", "e", "l", "p", " ", "C", "e", "n", "t", "e", "r">>) @@
          "icon" :> Str(<<"q", "u", "e", "s", "t", "i", "o", "n", "-", "m", "a", "r", "k", "-", "c", "i", "r", "c", "l", "e">>) @@
          "pages" :> Arr(<<
            Str(<<"h", "e", "l", "p", "/", "f", "a", "q">>),
            Str(<<"h", "e", "l", "p", "/", "t", "r", "o", "u", "b", "l", "e", "s", "h", "o", "o", "t", "i", "n", "g">>)>>))>>) @@
      "dropdowns" :> Arr(<<
        Obj(
          "dropdown" :> Str(<<"R", "e", "s", "o", "u", "r", "c", "e", "s">>) @@
          "icon" :> Str(<<"b", "o", "o", "k", "-", "o", "p", "e", "n">>) @@
          "pages" :> Arr(<<
            Str(<<"r", "e", "s", "o", "u", "r", "c", "e", "s", "/", "e", "x", "a", "m", "p", "l", "e", "s">>),
            Str(<<"r", "e", "s", "o", "u", "r", "c", "e", "s", "/", "t", "e", "m", "p", "l", "a", "t", "e", "s">>)>>))>>)) @@
    "integrations" :> Obj(
      "ga4" :> Obj(
        "measurementId" :> Str(<<"G", "-", "X", "X", "X", "X", "X", "X", "X">>))))

example_api ==
  Obj(
    "$schema" :> Str(<<"h", "t", "t", "p", "s", ":", "/", "/", "m", "i", "n", "t", "l", "i", "f", "y", ".", "c", "o", "m", "/", "d", "o", "c", "s", ".", "j", "s", "o", "n">>) @@
    "theme" :> Str(<<"w", "i", "l", "l", "o", "w">>) @@
    "name" :> Str(<<"A", "P", "I", " ", "D", "o", "c", "u", "m", "e", "n", "t", "a", "t", "i", "o", "n">>) @@
    "description" :> Str(<<"R", "E", "S", "T", "f", "u", "l", " ", "A", "P", "I", " ", "d", "o", "c", "u", "m", "e", "n", "t", "a", "t", "i", "o", "n", " ", "w", "i", "t", "h", " ", "O", "p", "e", "n", "A", "P", "I", " ", "i", "n", "t", "e", "g", "r", "a", "t", "i", "o", "n">>) @@
    "colors" :> Obj(
      "primary" :> Str(<<"#", "8", "B", "5", "C", "F", "6">>)) @@
    "navigation" :> Obj(
      "anchors" :> Arr(<<
        Obj(
          "anchor" :> Str(<<"A", "P", "I", " ", "R", "e", "f", "e", "r", "e", "n", "c", "e">>) @@
          "icon" :> Str(<<"c", "o", "d", "e">>) @@
          "groups" :> Arr(<<
            Obj(
              "group" :> Str(<<"A", "u", "t", "h", "e", "n", "t", "i", "c", "a", "t", "i", "o", "n">>) @@
              "icon" :> Str(<<"k", "e", "y">>) @@
              "pages" :> Arr(<<
                Str(<<"a", "u", "t", "h", "/", "o", "v", "e", "r", "v", "i", "e", "w">>),
                Str(<<"a", "u", "t", "h", "/", "a", "p", "i", "-", "k", "e", "y", "s">>),
                Str(<<"a", "u", "t", "h", "/", "o", "a", "u", "t", "h">>)>>)),
            Obj(
              "group" :> Str(<<"C", "o", "r", "e", " ", "A", "P", "I">>) @@
              "icon" :> Str(<<"s", "e", "r", "v", "e", "r">>) @@
              "openapi" :> Str(<<"/", "o", "p", "e", "n", "a", "p", "i", ".", "j", "s", "o", "n">>) @@
              "pages" :> Arr(<<
                Str(<<"G", "E", "T", " ", "/", "u", "s", "e", "r", "s">>),
                Str(<<"P", "O", "S", "T", " ", "/", "u", "s", "e", "r", "s">>),
                Str(<<"P", "U", "T", " ", "/", "u", "s", "e", "r", "s", "/", "{", "i", "d", "}">>),
                Str(<<"D", "E", "L", "E", "T", "E", " ", "/", "u", "s", "e", "r", "s", "/", "{", "i", "d", "}">>),
                Str(<<"G", "E", "T", " ", "/", "p", "r", "o", "j", "e", "c", "t", "s">>),
                Str(<<"P", "O", "S", "T", " ", "/", "p", "r", "o", "j", "e", "c", "t", "s">>)>>))>>)),
        Obj(
          "anchor" :> Str(<<"S", "D", "K", "s">>) @@
          "icon" :> Str(<<"c", "o", "d", "e">>) @@
          "groups" :> Arr(<<
            Obj(
              "group" :> Str(<<"C", "l", "i", "e", "n", "t", " ", "L", "i", "b", "r", "a", "r", "i", "e", "s">>) @@
              "pages" :> Arr(<<
                Str(<<"s", "d", "k", "s", "/", "j", "a", "v", "a", "s", "c", "r", "i", "p", "t">>),
                Str(<<"s", "d", "k", "s", "/", "p", "y", "t", "h", "o", "n">>),
                Str(<<"s", "d", "k", "s", "/", "g", "o">>)>>))>>))>>)))

example_multilingual ==
  Obj(
    "$schema" :> Str(<<"h", "t", "t", "p", "s", ":", "/", "/", "m", "i", "n", "t", "l", "i", "f", "y", ".", "c", "o", "m", "/", "d", "o", "c", "s", ".", "j", "s", "o", "n">>) @@
    "theme" :> Str(<<"p", "a", "l", "m">>) @@
    "name" :> Str(<<"M", "u", "l", "t", "i", "l", "i", "n", "g", "u", "a", "l", " ", "D", "o", "c", "u", "m", "e", "n", "t", "a", "t", "i", "o", "n">>) @@
    "description" :> Str(<<"D", "o", "c", "u", "m", "e", "n", "t", "a", "t", "i", "o", "n", " ", "s", "i", "t", "e", " ", "w", "i", "t", "h", " ", "m", "u", "l", "t", "i", "p", "l", "e", " ", "l", "a", "n", "g", "u", "a", "g", "e", " ", "s", "u", "p", "p", "o", "r", "t">>) @@
    "colors" :> Obj(
      "primary" :> Str(<<"#", "0", "5", "9", "6", "6", "9">>)) @@
    "navigation" :> Obj(
      "languages" :> Arr(<<
        Obj(
          "language" :> Str(<<"e", "n">>) @@
          "groups" :> Arr(<<
            Obj(
              "group" :> Str(<<"G", "e", "t", "t", "i", "n", "g", " ", "S", "t", "a", "r", "t", "e", "d">>) @@
              "pages" :> Arr(<<
                Str(<<"e", "n", "/", "i", "n", "t", "r", "o", "d", "u", "c", "t", "i", "o", "n">>),
                Str(<<"e", "n", "/", "q", "u", "i", "c", "k", "s", "t", "a", "r", "t">>)>>))>>)),
        Obj(
          "language" :> Str(<<"e", "s">>) @@
          "groups" :> Arr(<<
            Obj(
              "group" :> Str(<<"C", "o", "m", "e", "n", "z", "a", "n", "d", "o">>) @@
              "pages" :> Arr(<<
                Str(<<"e", "s", "/", "i", "n", "t", "r", "o", "d", "u", "c", "c", "i", "o", "n">>),
                Str(<<"e", "s", "/", "i", "n", "i", "c", "i", "o", "-", "r", "a", "p", "i", "d", "o">>)>>))>>)),
        Obj(
          "language" :> Str(<<"f", "r">>) @@
          "groups" :> Arr(<<
            Obj(
              "group" :> Str(<<"C", "o", "m", "m", "e", "n", "c", "e", "r">>) @@
              "pages" :> Arr(<<
                Str(<<"f", "r", "/", "i", "n", "t", "r", "o", "d", "u", "c", "t", "i", "o", "n">>),
                Str(<<"f", "r", "/", "d", "e", "m", "a", "r", "r", "a", "g", "e", "-", "r", "a", "p", "i", "d", "e">>)>>))>>))>>)))

\* examples whose minimal document has a page under the reserved path
examples_ReservedPage ==
  [example \in {"minimal", "complete", "api", "multilingual"} |->
     CASE example = "minimal" ->
            Obj(("navigation" :> Obj("pages" :> Arr(<<Str(<<"m", "c", "p", "/", "a">>)>>)))
                  @@ example_minimal.o)
       [] example = "complete" -> example_complete
       [] example = "api" -> example_api
       [] example = "multilingual" -> example_multilingual]

examples ==
  [example \in {"minimal", "complete", "api", "multilingual"} |->
     CASE example = "minimal" -> example_minimal
       [] example = "complete" -> example_complete
       [] example = "api" -> example_api
       [] example = "multilingual" -> example_multilingual]

(***************************************************************************)
(* The component.  jsonInput is the useState cell; parsedConfig and        *)
(* validationResult are the values held by the two useMemo cells after the *)
(* last render; crashed records that a render threw (nothing catches it,   *)
(* so the component is unmounted); mounted that the mount effect has run.  *)
(***************************************************************************)
VARIABLES jsonInput, parsedConfig, validationResult, crashed, mounted

vars == <<jsonInput, parsedConfig, validationResult, crashed, mounted>>

NullResult == [kind |-> "null"]
ParseErrorPrefix == "JSON Parse Error: "
InvalidJsonFormat == <<"Invalid JSON format">>
ParseErrorResult(message) == ValidationResult(<<(<<ParseErrorPrefix>> \o message)>>, <<>>, FALSE)

\* the body of the parsedConfig memo
ComputeParsedConfig(text) ==
  IF Trim(text) = <<>> THEN Null
  ELSE IF JSONparse(text).ok THEN JSONparse(text).val
  ELSE Null

\* a validator whose errors and warnings arrays outlive the call: each
\* validation appends to what the previous one left
ComputeValidationResult_KeepsArrays(text, parsed) ==
  IF Trim(text) = <<>> THEN NullResult
  ELSE IF ~Truthy(parsed) THEN ParseErrorResult(InvalidJsonFormat)
  ELSE IF validateDocsJson(parsed) = Thrown \/ validationResult.kind # "result"
  THEN validateDocsJson(parsed)
  ELSE ValidationResult(validationResult.errors \o validateDocsJson(parsed).errors,
                        validationResult.warnings \o validateDocsJson(parsed).warnings,
                        validationResult.errors \o validateDocsJson(parsed).errors = <<>>)

\* the body of the validationResult memo
ComputeValidationResult(text, parsed) ==
  IF Trim(text) = <<>> THEN NullResult
  ELSE IF ~Truthy(parsed) THEN ParseErrorResult(InvalidJsonFormat)
  ELSE validateDocsJson(parsed)

\* Object.is(old, new) for a value JSON.parse has just produced: a new object
\* or array is never the old one, a primitive is compared by value
SameDependency(old, new) == ~IsObjectNotNull(new) /\ old = new

\* setJsonInput(text) and the render it causes
SetJsonInput(text) ==
  IF text = jsonInput THEN UNCHANGED vars
  ELSE LET parsed == ComputeParsedConfig(text)
           computed == ComputeValidationResult(text, parsed)
       IN /\ jsonInput' = text
          /\ parsedConfig' = parsed
          /\ UNCHANGED mounted
          /\ IF SameDependency(parsedConfig, parsed)
             THEN UNCHANGED <<validationResult, crashed>>
             ELSE IF computed = Thrown
             THEN crashed' = TRUE /\ validationResult' = NullResult
             ELSE validationResult' = computed /\ UNCHANGED crashed

\* a preview guard that does not look at the result
ConfigurationPreview_AnyDocument == ~crashed /\ Truthy(parsedConfig)
\* {parsedConfig && validationResult?.isValid && ( ...the configuration preview... )}
ConfigurationPreview ==
  /\ ~crashed /\ Truthy(parsedConfig)
  /\ validationResult.kind = "result" /\ validationResult.isValid

Init ==
  /\ jsonInput = <<>>
  /\ parsedConfig = Null
  /\ validationResult = NullResult
  /\ crashed = FALSE
  /\ mounted = FALSE

\* useEffect(() => setJsonInput(JSON.stringify(defaultConfig, null, 2)), [])
DefaultText == JSONstringify(defaultConfig)

MountEffect ==
  /\ ~mounted
  /\ LET text == DefaultText
         parsed == ComputeParsedConfig(text)
     IN /\ jsonInput' = text
        /\ parsedConfig' = parsed
        /\ validationResult' = ComputeValidationResult(text, parsed)
        /\ mounted' = TRUE
        /\ UNCHANGED crashed

loadExample(example) ==
  /\ mounted /\ ~crashed
  /\ SetJsonInput(JSONstringify(examples[example]))

(***************************************************************************)
(* The inputs explored.  Documents are built from a base document that     *)
(* passes every check; a navigation tree is a chain of nested nodes, each  *)
(* level choosing the key that names the node and the key that holds its   *)
(* children, placed under one of the arrays validateNavigation visits.     *)
(***************************************************************************)
MaxNest == 2

ValidPrimary == <<"#", "0", "0", "6", "6", "c", "c">>
With(o, k, x) == Obj((k :> x) @@ o.o)
Without(o, k) == Obj([j \in DOMAIN o.o \ {k} |-> o.o[j]])
OneGroup == Obj("groups" :> Arr(<<Obj("group" :> Str(<<"G">>) @@ "pages" :> Arr(<<Str(<<"a">>)>>))>>))
BaseDoc(navigation) ==
  Obj("theme" :> Str(Chars_mint) @@ "name" :> Str(<<"X">>)
      @@ "colors" :> Obj("primary" :> Str(ValidPrimary)) @@ "navigation" :> navigation)

P_plain == <<"a">>
P_mcp == <<"m", "c", "p", "/", "a">>
P_mid == <<"g", "/", "m", "c", "p", "/", "s">>
P_mcpx == <<"m", "c", "p", "x", "/", "a">>
P_api == <<"a", "p", "i", "/", "u", "s", "e", "r", "s">>
H_external == <<"h", "t", "t", "p", ":", "/", "/", "h", "/", "m", "c", "p", "/", "s">>
H_secure == <<"h", "t", "t", "p", "s", ":", "/", "/", "h", "/", "x">>
H_relative == <<"m", "c", "p", "/", "h">>
H_tail == <<"x", "/", "m", "c", "p">>

\* the entries a chain ends in
LeafArrays ==
  { <<Str(P_mcp)>>,
    <<Str(P_plain), Str(P_mid)>>,
    <<Str(P_mcpx), Str(P_api)>>,
    <<Str(H_external)>>,
    <<Obj("anchor" :> Str(<<"A">>) @@ "href" :> Str(H_relative))>>,
    <<Obj("anchor" :> Str(<<"A">>) @@ "href" :> Str(H_external))>>,
    <<Obj("href" :> Str(H_tail)), Str(P_mcp)>>,
    <<Obj("group" :> Str(<<"G">>) @@ "pages" :> Arr(<<Str(P_mcp), Str(P_mcp)>>)
          @@ "href" :> Str(H_secure))>>,
    <<Obj("tab" :> Str(<<"T">>)
          @@ "anchors" :> Arr(<<Obj("anchor" :> Str(<<"A">>) @@ "pages" :> Arr(<<Str(P_mcp)>>))>>))>> }
DeepLeafArrays ==
  { <<Str(P_mcp)>>,
    <<Obj("anchor" :> Str(<<"A">>) @@ "href" :> Str(H_relative))>> }

NameKeys == {"group", "tab", "item", "none"}
ChildKeys == {"pages", "groups", "menu", "tabs"}
Levels(k) == [1..k -> NameKeys \X ChildKeys]

RECURSIVE Chain(_, _, _)
Chain(levels, depth, leaves) ==
  IF depth > Len(levels) THEN leaves
  ELSE LET nameKey == levels[depth][1]
           named == IF nameKey = "none" THEN <<>> ELSE nameKey :> Str(<<"N", Digit(depth)>>)
       IN <<Obj(named @@ (levels[depth][2] :> Arr(Chain(levels, depth + 1, leaves))))>>

TopKeys == {"pages", "groups", "tabs", "anchors", "dropdowns"}
Containers ==
  ({"top", "versions", "languages"} \X (TopKeys \cup {"menu"})) \cup {<<"global", "anchors">>}
DeepContainers == {<<"top", "pages">>, <<"top", "groups">>, <<"versions", "tabs">>}

Place(container, items) ==
  CASE container[1] = "top" -> Obj(container[2] :> Arr(items))
    [] container[1] = "versions" ->
         Obj("versions" :> Arr(<<Obj("version" :> Str(<<"1">>) @@ container[2] :> Arr(items))>>))
    [] container[1] = "languages" ->
         Obj("languages" :> Arr(<<Obj("language" :> Str(<<"e", "n">>) @@ container[2] :> Arr(items))>>))
    [] container[1] = "global" -> Obj("global" :> Obj("anchors" :> Arr(items)))

NavigationDocs ==
  { BaseDoc(Place(c, Chain(l, 1, leaves))) :
      c \in Containers, l \in Levels(0) \cup Levels(1), leaves \in LeafArrays }
  \cup
  { BaseDoc(Place(c, Chain(l, 1, leaves))) :
      c \in DeepContainers, l \in UNION {Levels(k) : k \in 2..MaxNest}, leaves \in DeepLeafArrays }

\* the required fields, each missing, well-formed or ill-formed
FieldDocs ==
  { Obj(theme @@ name @@ colors @@ navigation) :
      theme \in {<<>>, "theme" :> Str(Chars_mint), "theme" :> Str(Chars_aspen),
                 "theme" :> Str(<<"b", "o", "g", "u", "s">>)},
      name \in {<<>>, "name" :> Str(<<"X">>)},
      colors \in {<<>>, "colors" :> EmptyObj, "colors" :> Obj("primary" :> Str(ValidPrimary)),
                  "colors" :> Obj("primary" :> Str(<<"#", "Z", "Z", "Z", "Z", "Z", "Z">>)),
                  "colors" :> Obj("primary" :> Str(ValidPrimary)
                                  @@ "light" :> Str(<<"r", "e", "d">>))},
      navigation \in {<<>>, "navigation" :> EmptyObj, "navigation" :> OneGroup} }

\* the four optional fields of the best-practice nudges: absent, given, or given empty
OptionalDocs ==
  { Obj(schema @@ description @@ favicon @@ logo @@ BaseDoc(OneGroup).o) :
      schema \in {<<>>, "$schema" :> Str(<<"s">>), "$schema" :> Str(<<>>)},
      description \in {<<>>, "description" :> Str(<<"d">>), "description" :> Null},
      favicon \in {<<>>, "favicon" :> Str(<<"/", "f", ".", "I", "C", "O">>),
                   "favicon" :> Str(<<"f", ".", "g", "i", "f">>), "favicon" :> Num(0)},
      logo \in {<<>>, "logo" :> Str(<<"l", ".", "p", "n", "g">>),
                "logo" :> Obj("href" :> Str(H_secure)), "logo" :> Obj("href" :> Str(<<"x">>)),
                "logo" :> Bool(FALSE)} }

\* fields whose values have a type the checks do not expect
UnexpectedDocs ==
  { With(BaseDoc(OneGroup), "colors", Obj("primary" :> Num(5))),
    With(BaseDoc(OneGroup), "colors", Obj("primary" :> Str(ValidPrimary) @@ "dark" :> Bool(TRUE))),
    With(BaseDoc(OneGroup), "colors", Num(5)),
    With(BaseDoc(OneGroup), "theme", Num(5)),
    With(BaseDoc(OneGroup), "theme", Arr(<<Str(Chars_mint)>>)),
    With(BaseDoc(OneGroup), "name", EmptyObj),
    With(BaseDoc(OneGroup), "favicon", Obj("light" :> Str(<<"f", ".", "p", "n", "g">>))),
    With(BaseDoc(OneGroup), "logo", Obj("href" :> Num(5))),
    With(BaseDoc(OneGroup), "logo", Arr(<<>>)),
    With(BaseDoc(OneGroup), "integrations", Obj("ga4" :> Obj("measurementId" :> Num(5)))),
    With(BaseDoc(OneGroup), "integrations", Str(<<"x">>)),
    With(BaseDoc(OneGroup), "extra", Arr(<<Null, Num(12)>>)),
    BaseDoc(Str(<<"n">>)),
    BaseDoc(Num(5)),
    BaseDoc(Arr(<<>>)),
    BaseDoc(Obj("groups" :> Arr(<<Null>>))),
    BaseDoc(Obj("groups" :> Arr(<<Num(5)>>))),
    BaseDoc(Obj("groups" :> Str(<<"g">>))),
    BaseDoc(Obj("groups" :> EmptyObj)),
    BaseDoc(Obj("pages" :> Str(P_mcp))),
    BaseDoc(Obj("pages" :> Arr(<<Null, Num(5), Arr(<<Str(P_mcp)>>)>>))),
    BaseDoc(Obj("tabs" :> Arr(<<Obj("tab" :> Str(<<"T">>) @@ "menu" :> Str(<<"m">>))>>))),
    BaseDoc(Obj("tabs" :> Arr(<<Obj("tab" :> Str(<<"T">>) @@ "menu" :> Arr(<<Null>>))>>))),
    BaseDoc(Obj("versions" :> Arr(<<Null>>))),
    BaseDoc(Obj("languages" :> Num(5))),
    BaseDoc(Obj("global" :> Null)),
    BaseDoc(Obj("global" :> Obj("anchors" :> Arr(<<Obj("anchor" :> Str(<<"A">>) @@ "href" :> Num(5))>>)))) }

\* the documents typed into the editor one after the other
UIDocs ==
  UnexpectedDocs
  \cup {doc \in FieldDocs :
          /\ Get(doc, "theme") \in {Undef, Str(Chars_mint)}
          /\ Get(Get(doc, "colors"), "light") = Undef}
  \cup {doc \in OptionalDocs :
          /\ Get(doc, "logo") = Undef
          /\ Get(doc, "favicon") \in {Undef, Num(0)}}

\* documents without navigation, the optional fields absent, given, or given empty
NoNavigationDocs == {Without(doc, "navigation") : doc \in OptionalDocs}

\* theme: each valid name, other strings, empty values, values of another type
ThemeDocs ==
  { With(BaseDoc(OneGroup), "theme", theme) :
      theme \in {Str(validThemes[i]) : i \in 1..Len(validThemes)}
                \cup {Str(<<"b", "o", "g", "u", "s">>), Str(<<"M", "i", "n", "t">>),
                      Str(<<"m", "i", "n", "t", " ">>), Str(<<>>), Null, Num(0), Bool(FALSE),
                      Bool(TRUE), Num(5), Arr(<<Str(Chars_mint)>>), EmptyObj} }
  \cup {Without(BaseDoc(OneGroup), "theme"), Without(BaseDoc(EmptyObj), "theme")}

\* colors: absent, of another type, or an object whose primary, light and dark
\* are absent, well-formed, ill-formed, empty or of another type
PrimaryValues ==
  { Str(ValidPrimary), Str(<<"#", "A", "B", "C", "D", "E", "F">>),
    Str(<<"#", "a", "B", "9", "f", "0", "E">>), Str(<<"#", "Z", "Z", "Z", "Z", "Z", "Z">>),
    Str(<<"#", "1", "2", "3", "4", "5">>), Str(<<"#", "1", "2", "3", "4", "5", "6", "7">>),
    Str(<<"0", "0", "6", "6", "c", "c", "0">>), Str(<<>>), Null, Num(0), Num(5), Bool(TRUE),
    EmptyObj }
ModeValues ==
  { Str(<<"#", "f", "F", "0", "0", "a", "A">>), Str(<<"r", "e", "d">>), Str(<<>>), Null,
    Bool(TRUE) }
ColorDocs ==
  { With(BaseDoc(OneGroup), "colors", colors) :
      colors \in {Null, EmptyObj, Str(<<"r", "e", "d">>), Num(5), Arr(<<>>)}
                 \cup {Obj("primary" :> primary) : primary \in PrimaryValues} }
  \cup
  { With(BaseDoc(OneGroup), "colors", Obj(primary @@ light @@ dark)) :
      primary \in {<<>>, "primary" :> Str(ValidPrimary),
                   "primary" :> Str(<<"#", "Z", "Z", "Z", "Z", "Z", "Z">>)},
      light \in {<<>>} \cup {"light" :> x : x \in ModeValues},
      dark \in {<<>>} \cup {"dark" :> x : x \in ModeValues} }
  \cup {Without(BaseDoc(OneGroup), "colors")}

\* lists of one or two entries
Lists12(entries) ==
  {<<x>> : x \in entries} \cup {<<x, y>> : x \in entries, y \in entries}
\* navigation.tabs entries: named by tab, by name, by both, by neither
TabEntries ==
  {Obj("tab" :> Str(<<"T">>)), Obj("name" :> Str(<<"T">>)),
   Obj("tab" :> Str(<<"T">>) @@ "name" :> Str(<<"N">>)), EmptyObj,
   Obj("name" :> Str(<<"T">>) @@ "url" :> Str(<<"u">>)),
   Obj("pages" :> Arr(<<Str(P_plain)>>))}
TabDocs == {BaseDoc(Obj("tabs" :> Arr(list))) : list \in Lists12(TabEntries)}
\* navigation.groups entries: with and without a name, with and without pages
GroupEntries ==
  {Obj("group" :> Str(<<"G">>) @@ "pages" :> Arr(<<Str(P_plain)>>)),
   Obj("group" :> Str(<<"G">>) @@ "pages" :> Arr(<<>>)),
   Obj("group" :> Str(<<"G">>)),
   Obj("pages" :> Arr(<<Str(P_plain)>>)),
   EmptyObj,
   Obj("group" :> Str(<<>>)),
   Obj("group" :> Str(<<"G">>) @@ "pages" :> Str(P_plain)),
   Obj("group" :> Str(<<"G">>) @@ "pages" :> Obj("extra" :> Str(P_plain))),
   Obj("group" :> Str(<<"G">>) @@ "pages" :> Null)}
GroupDocs == {BaseDoc(Obj("groups" :> Arr(list))) : list \in Lists12(GroupEntries)}
\* navigation.languages entries: codes inside and outside the list, no code
LanguageCodes ==
  {Str(<<"e", "n">>), Str(<<"p", "t", "-", "B", "R">>), Str(<<"x", "x">>), Str(<<"E", "N">>),
   Str(<<>>), Num(5), Null}
LanguageEntries == {Obj("language" :> code) : code \in LanguageCodes} \cup {EmptyObj, Null}
LanguageDocs == {BaseDoc(Obj("languages" :> Arr(list))) : list \in Lists12(LanguageEntries)}
\* navigation.global.anchors entries
H_https == <<"h", "t", "t", "p", "s", ":", "/", "/", "x">>
H_local == <<"/", "l", "o", "c", "a", "l">>
GlobalHrefs == {Str(H_https), Str(Http), Str(H_local), Str(<<>>), Num(5), Null}
GlobalAnchorEntries ==
  {Obj("anchor" :> Str(<<"A">>) @@ "href" :> href) : href \in GlobalHrefs}
    \cup {Obj("href" :> href) : href \in GlobalHrefs}
    \cup {Obj("anchor" :> Str(<<"A">>)), EmptyObj}
GlobalAnchorDocs ==
  {BaseDoc(Obj("global" :> Obj("anchors" :> Arr(<<entry>>)))) : entry \in GlobalAnchorEntries}
    \cup {BaseDoc(Obj("global" :> Obj("anchors" :>
                    Arr(<<Obj("anchor" :> Str(<<"A">>) @@ "href" :> Str(H_local)), entry>>))))
            : entry \in GlobalAnchorEntries}
\* one more field for a passing document: unknown keys with any JSON value,
\* optional keys with values of the documented shapes
F_icon == <<"f", ".", "p", "n", "g">>
Variants == Obj("light" :> Str(F_icon) @@ "dark" :> Str(F_icon))
AddedFields ==
  ({"extra"} \X {Null, Bool(TRUE), Num(12), Str(P_mcp), Arr(<<Null, Num(12)>>), EmptyObj,
                 Obj("navigation" :> Null)})
    \cup ({"description"} \X {Str(<<"d">>)})
    \cup ({"$schema"} \X {Str(<<"s">>)})
    \cup ({"favicon"} \X {Str(F_icon), Variants})
    \cup ({"logo"} \X {Str(F_icon), Variants, With(Variants, "href", Str(H_secure))})
PassingDocs == {BaseDoc(OneGroup), defaultConfig, example_minimal}
AddedFieldDocs ==
  {With(doc, field[1], field[2]) : doc \in PassingDocs, field \in AddedFields}
\* optional asset and integration values of the right and of the wrong format
FaviconFields ==
  {<<>>, "favicon" :> Str(F_icon), "favicon" :> Str(<<"/", "f", ".", "I", "C", "O">>),
   "favicon" :> Str(<<"f", ".", "g", "i", "f">>), "favicon" :> Str(<<"s", "v", "g">>)}
LogoFields ==
  {<<>>, "logo" :> Obj("href" :> Str(H_secure)), "logo" :> Obj("href" :> Str(H_local)),
   "logo" :> Obj("href" :> Str(<<"h", "t", "t", "p", ":", "x">>)),
   "logo" :> Obj("href" :> Num(5))}
Ga4Ids ==
  {Str(<<"G", "-", "A", "B", "1">>), Str(<<"G", "-", "a", "b", "1">>), Str(<<"G", "-">>),
   Str(<<"U", "A", "-", "1">>), Str(<<"G", "-", "A", "_", "1">>), Num(5)}
GtmIds ==
  {Str(<<"G", "T", "M", "-", "A", "1">>), Str(<<"G", "T", "M", "-", "a", "1">>),
   Str(<<"G", "T", "M", "-">>), Str(<<"G", "-", "A", "1">>), Num(5)}
IntegrationsFields ==
  {<<>>}
    \cup {"integrations" :> Obj("ga4" :> Obj("measurementId" :> id)) : id \in Ga4Ids}
    \cup {"integrations" :> Obj("gtm" :> Obj("containerId" :> id)) : id \in GtmIds}
    \cup {"integrations" :> Obj("ga4" :> Obj("measurementId" :> ga4)
                                  @@ "gtm" :> Obj("containerId" :> gtm))
            : ga4 \in Ga4Ids, gtm \in GtmIds}
FormatDocs ==
  {Obj(favicon @@ logo @@ integrations @@ BaseDoc(OneGroup).o) :
     favicon \in FaviconFields, logo \in LogoFields, integrations \in IntegrationsFields}
\* navigation trees with reserved paths at several places, each path its own
M_(c) == <<"m", "c", "p", "/", c>>
OrderParts ==
  << {<<>>, "pages" :> Arr(<<Str(M_("b")), Str(P_plain), Str(M_("c"))>>)},
     {<<>>, "groups" :> Arr(<<Obj("group" :> Str(<<"G">>) @@ "pages" :>
                                Arr(<<Str(M_("d")),
                                      Obj("group" :> Str(<<"H">>) @@ "pages" :> Arr(<<Str(M_("e"))>>)),
                                      Str(M_("f"))>>))>>)},
     {<<>>, "tabs" :> Arr(<<Obj("tab" :> Str(<<"T">>) @@ "href" :> Str(M_("g"))
                              @@ "menu" :> Arr(<<Obj("item" :> Str(<<"I">>) @@ "pages" :>
                                                   Arr(<<Str(M_("h"))>>))>>)
                              @@ "pages" :> Arr(<<Str(M_("i"))>>)),
                            Obj("tab" :> Str(<<"U">>) @@ "pages" :> Arr(<<Str(M_("j"))>>))>>)},
     {<<>>, "versions" :> Arr(<<Obj("version" :> Str(<<"V">>)
                                  @@ "tabs" :> Arr(<<Obj("tab" :> Str(<<"T">>) @@ "pages" :>
                                                       Arr(<<Str(M_("k"))>>))>>)
                                  @@ "pages" :> Arr(<<Str(M_("l"))>>))>>)},
     {<<>>, "global" :> Obj("anchors" :> Arr(<<Obj("anchor" :> Str(<<"A">>) @@ "href" :> Str(M_("m"))),
                                               Obj("anchor" :> Str(<<"B">>) @@ "href" :> Str(H_https))>>))} >>
OrderDocs ==
  {Obj(favicon @@ BaseDoc(Obj(p1 @@ p2 @@ p3 @@ p4 @@ p5)).o) :
     favicon \in {<<>>, "favicon" :> Str(<<"f", ".", "g", "i", "f">>)},
     p1 \in OrderParts[1], p2 \in OrderParts[2], p3 \in OrderParts[3], p4 \in OrderParts[4],
     p5 \in OrderParts[5]}
\* documents failing several checks at once
ErrorOrderDocs ==
  {Obj(theme @@ name @@ colors @@ navigation) :
     theme \in {<<>>, "theme" :> Str(<<"b", "o", "g", "u", "s">>), "theme" :> Str(Chars_mint)},
     name \in {<<>>, "name" :> Str(<<"X">>)},
     colors \in {<<>>, "colors" :> Obj("primary" :> Str(ValidPrimary)),
                 "colors" :> Obj("primary" :> Str(<<"r", "e", "d">>) @@ "light" :> Str(<<"r", "e", "d">>)),
                 "colors" :> Obj("light" :> Str(<<"r", "e", "d">>)),
                 "colors" :> Obj("primary" :> Str(ValidPrimary) @@ "light" :> Str(<<"r", "e", "d">>)
                                  @@ "dark" :> Str(<<"r", "e", "d">>))},
     navigation \in {<<>>, "navigation" :> OneGroup,
                     "navigation" :> Obj("groups" :> Arr(<<EmptyObj, EmptyObj>>)),
                     "navigation" :>
                       Obj("groups" :> Arr(<<EmptyObj>>)
                           @@ "tabs" :> Arr(<<EmptyObj, Obj("tab" :> Str(<<"T">>)), EmptyObj>>)
                           @@ "dropdowns" :> Arr(<<EmptyObj, EmptyObj>>)
                           @@ "languages" :> Arr(<<EmptyObj>>)
                           @@ "global" :> Obj("anchors" :> Arr(<<EmptyObj>>)))}}
\* nodes carrying one or two of the keys that name a node, each with its own value
NamingValues ==
  [group |-> <<"G">>, tab |-> <<"T">>, name |-> <<"N">>, anchor |-> <<"A">>,
   dropdown |-> <<"D">>, item |-> <<"I">>]
MultiKeyNodes ==
  {Obj((k1 :> Str(NamingValues[k1])) @@ (k2 :> Str(NamingValues[k2]))
       @@ "pages" :> Arr(<<Str(P_mcp)>>)) : k1 \in DOMAIN NamingValues, k2 \in DOMAIN NamingValues}
MultiKeyDocs ==
  {BaseDoc(Obj(key :> Arr(<<node>>))) : key \in {"groups", "tabs"}, node \in MultiKeyNodes}
\* navigation.versions entries with and without a label, holding nested entries
\* that the checks of navigation.groups / tabs would reject
VersionContents ==
  {<<>>,
   "groups" :> Arr(<<EmptyObj, Obj("pages" :> Arr(<<Str(P_mcp)>>))>>),
   "tabs" :> Arr(<<EmptyObj, Obj("menu" :> Arr(<<EmptyObj>>))>>),
   "anchors" :> Arr(<<EmptyObj>>) @@ "dropdowns" :> Arr(<<EmptyObj>>)
     @@ "pages" :> Arr(<<Str(P_mcp), Str(P_plain)>>),
   "groups" :> Str(P_mcp) @@ "pages" :> Obj("extra" :> Str(P_mcp))}
VersionLabels == {<<>>, "version" :> Str(<<"V">>), "version" :> Str(<<>>), "version" :> Num(2)}
VersionEntries ==
  {Obj(label @@ contents) : label \in VersionLabels, contents \in VersionContents} \cup {Null}
VersionDocs ==
  {BaseDoc(Obj("versions" :> Arr(<<entry>>))) : entry \in VersionEntries}
    \cup {BaseDoc(Obj("versions" :> Arr(<<Obj("groups" :> Arr(<<EmptyObj>>)), entry>>)))
            : entry \in VersionEntries}
\* logo objects whose light / dark variants are strings or something else
VariantValues == {Str(F_icon), Num(5), Bool(TRUE), Arr(<<Str(F_icon)>>), EmptyObj}
LogoVariantDocs ==
  {With(BaseDoc(OneGroup), "logo", Obj(light @@ dark)) :
     light \in {<<>>} \cup {"light" :> value : value \in VariantValues},
     dark \in {<<>>} \cup {"dark" :> value : value \in VariantValues}}
EntryDocs ==
  LogoVariantDocs \cup VersionDocs \cup MultiKeyDocs \cup ErrorOrderDocs \cup OrderDocs \cup FormatDocs \cup AddedFieldDocs \cup NoNavigationDocs \cup ThemeDocs \cup ColorDocs \cup TabDocs \cup GroupDocs \cup LanguageDocs
    \cup GlobalAnchorDocs
Docs == FieldDocs \cup OptionalDocs \cup UnexpectedDocs \cup NavigationDocs \cup EntryDocs

BlankTexts == {<<>>, <<Ws>>, <<Ws, Ws>>}
MalformedTexts ==
  { <<Tok("{"), WordTok("not"), Ws, WordTok("json")>>,
    <<Tok("{")>>,
    <<Tok("["), NumTok(1), Tok(",")>>,
    <<WordTok("garbage")>>,
    <<Tok("{"), StrTok(<<"theme">>), Tok(":")>>,
    <<Tok("{"), StrTok(<<"theme">>), Tok("}")>>,
    <<Tok("{"), Tok("}"), Tok("}")>>,
    <<Ws, Tok("["), Tok("}")>> }
ScalarTexts ==
  { <<Tok("null")>>, <<Tok("false")>>, <<Tok("true")>>, <<NumTok(0)>>, <<NumTok(5)>>,
    <<Ws, NumTok(5)>>, <<StrTok(<<>>)>>, <<StrTok(<<"a", "b", "c">>)>>,
    <<Tok("["), Tok("]")>>, <<Tok("["), NumTok(1), Tok(","), Tok("null"), Tok("]")>>,
    <<Ws, Tok("{"), Ws, Tok("}"), Ws>> }
UITexts ==
  BlankTexts \cup MalformedTexts \cup ScalarTexts \cup {JSONstringify(doc) : doc \in UIDocs}

\* the textarea's onChange
EditText(text) ==
  /\ mounted /\ ~crashed
  /\ SetJsonInput(text)

\* the user replaces the default text by a whole document
PasteDocument(doc) ==
  /\ mounted /\ ~crashed
  /\ jsonInput = DefaultText
  /\ SetJsonInput(JSONstringify(doc))

Next ==
  \/ MountEffect
  \/ \E example \in DOMAIN examples : loadExample(example)
  \/ \E text \in UITexts : EditText(text)

Spec == Init /\ [][Next]_vars

NextDocs ==
  \/ MountEffect
  \/ jsonInput = DefaultText /\ \E doc \in Docs : PasteDocument(doc)

SpecDocs == Init /\ [][NextDocs]_vars

\* the user puts white space before the text: the same document again
Reformat ==
  /\ mounted /\ ~crashed
  /\ jsonInput # <<>> /\ Head(jsonInput) # Ws
  /\ SetJsonInput(<<Ws>> \o jsonInput)

TwiceDocs == EntryDocs \cup FieldDocs \cup UnexpectedDocs
NextTwice ==
  \/ MountEffect
  \/ jsonInput = DefaultText /\ \E doc \in TwiceDocs : PasteDocument(doc)
  \/ Reformat

SpecTwice == Init /\ [][NextTwice]_vars

(***************************************************************************)
(* Properties                                                              *)
(***************************************************************************)
\* a validation result is on display
Shown == mounted /\ ~crashed /\ validationResult.kind = "result"
\* a validation result is on display and it was computed for parsedConfig
Validated == Shown /\ Truthy(parsedConfig)
NonBlank(text) == Trim(text) # <<>>
Malformed(text) == NonBlank(text) /\ ~JSONparse(text).ok

\* C1: parsing followed by validateDocsJson completes for every input text,
\* whatever the types of the document's fields: no exception escapes the
\* render that validates the text.
C1_NoExceptionEscapes == ~crashed

\* C2: after any sequence of edits and example loads, the validation result on
\* display is the result of parsing and validating the current text alone.
C2_ResultOfCurrentText ==
  (mounted /\ ~crashed) =>
    validationResult = ComputeValidationResult(jsonInput, ComputeParsedConfig(jsonInput))

\* C3: for every non-blank text that is not well-formed JSON the result is one
\* error beginning 'JSON Parse Error:', no warnings, isValid = false, and no
\* parsed document is retained.
C3_MalformedGivesParseError ==
  (mounted /\ ~crashed /\ Malformed(jsonInput)) =>
    /\ validationResult.kind = "result"
    /\ Len(validationResult.errors) = 1
    /\ validationResult.errors[1][1] = ParseErrorPrefix
    /\ validationResult.warnings = <<>>
    /\ ~validationResult.isValid
    /\ parsedConfig = Null

\* C4: the text after 'JSON Parse Error: ' is the message of the failure the
\* JSON parser raised for the current text.
C4_CarriesParserMessage ==
  (Shown /\ Malformed(jsonInput) /\ validationResult.errors # <<>>
     /\ validationResult.errors[1][1] = ParseErrorPrefix) =>
    Tail(validationResult.errors[1]) = JSONparse(jsonInput).message

\* C5: for the document {} the errors are exactly the four required-field
\* violations for theme, name, colors.primary and navigation, in that order,
\* and isValid is false.
C5_EmptyDocument ==
  (mounted /\ ~crashed /\ parsedConfig = EmptyObj) =>
    /\ validationResult.kind = "result"
    /\ validationResult.errors =
         <<ThemeRequired, NameRequired, PrimaryRequired, NavigationRequired>>
    /\ ~validationResult.isValid
C5_Witness ==
  /\ Shown
  /\ parsedConfig = EmptyObj
  /\ jsonInput = <<Ws, Tok("{"), Ws, Tok("}"), Ws>>
  /\ Len(validationResult.errors) = 4

Count(list, m) == Cardinality({i \in 1..Len(list) : list[i] = m})
NudgeKeys == {"$schema", "description", "favicon", "logo"}
NudgeFor(key) ==
  CASE key = "$schema" -> SchemaNudge
    [] key = "description" -> DescriptionNudge
    [] key = "favicon" -> FaviconNudge
    [] key = "logo" -> LogoNudge
\* present in the document, but null, false, 0 or the empty string
EmptyValue(x) == x \in {Null, Bool(FALSE), Num(0), Str(<<>>)}
\* a segment of the '/'-separated path is exactly mcp
HasMcpSegment(path) ==
  \E i \in 1..Len(path) :
    /\ i + 2 <= Len(path)
    /\ path[i] = "m" /\ path[i + 1] = "c" /\ path[i + 2] = "p"
    /\ (i = 1 \/ path[i - 1] = "/")
    /\ (i + 2 = Len(path) \/ path[i + 3] = "/")
IsStringValue(x, nonEmpty) == x.t = "str" /\ (nonEmpty => x.s # <<>>)
\* the document of scenario 1: the four required fields and nothing else, one
\* well-formed group of ordinary pages
IsMinimalValidDocument(doc) ==
  /\ doc.t = "obj" /\ DOMAIN doc.o = {"theme", "name", "colors", "navigation"}
  /\ doc.o["theme"].t = "str"
  /\ doc.o["theme"].s \in {Chars_mint, Chars_maple, Chars_palm, Chars_willow, Chars_linden,
                           Chars_almond, Chars_aspen}
  /\ IsStringValue(doc.o["name"], TRUE)
  /\ doc.o["colors"].t = "obj" /\ DOMAIN doc.o["colors"].o = {"primary"}
  /\ doc.o["colors"].o["primary"] = Str(ValidPrimary)
  /\ doc.o["navigation"].t = "obj" /\ DOMAIN doc.o["navigation"].o = {"groups"}
  /\ LET groups == doc.o["navigation"].o["groups"]
     IN /\ groups.t = "arr" /\ Len(groups.a) = 1
        /\ groups.a[1].t = "obj" /\ DOMAIN groups.a[1].o = {"group", "pages"}
        /\ IsStringValue(groups.a[1].o["group"], TRUE)
        /\ groups.a[1].o["pages"].t = "arr"
        /\ \A i \in 1..Len(groups.a[1].o["pages"].a) :
             /\ IsStringValue(groups.a[1].o["pages"].a[i], TRUE)
             /\ ~HasMcpSegment(groups.a[1].o["pages"].a[i].s)

\* C6 (as claimed): the minimal valid document yields isValid, no errors and
\* exactly the four best-practice nudges; in every result each nudge appears
\* once iff its field is missing from the document, and never as an error.
C6_NudgeIffMissing ==
  Validated =>
    /\ IsMinimalValidDocument(parsedConfig) =>
         /\ validationResult.isValid
         /\ validationResult.errors = <<>>
         /\ Len(validationResult.warnings) = 4
    /\ \A key \in NudgeKeys :
         /\ Count(validationResult.warnings, NudgeFor(key))
              = (IF Get(parsedConfig, key) = Undef THEN 1 ELSE 0)
         /\ Count(validationResult.errors, NudgeFor(key)) = 0

\* C6 (amended): the same, a nudge appearing once iff its field is missing or
\* has an empty value (null, false, 0 or the empty string).
C6_NudgeIffMissingOrEmpty ==
  Validated =>
    /\ IsMinimalValidDocument(parsedConfig) =>
         /\ validationResult.isValid
         /\ validationResult.errors = <<>>
         /\ Len(validationResult.warnings) = 4
    /\ \A key \in NudgeKeys :
         /\ Count(validationResult.warnings, NudgeFor(key))
              = (IF Get(parsedConfig, key) = Undef \/ EmptyValue(Get(parsedConfig, key))
                 THEN 1 ELSE 0)
         /\ Count(validationResult.errors, NudgeFor(key)) = 0
C6_Witness ==
  /\ Validated
  /\ IsMinimalValidDocument(parsedConfig)
  /\ validationResult.warnings = <<SchemaNudge, DescriptionNudge, FaviconNudge, LogoNudge>>

\* C7: in every ValidationResult produced, by the checks or by the parse-error
\* path, isValid is true iff the errors list is empty, whatever the warnings.
C7_ValidIffNoErrors ==
  validationResult.kind = "result" =>
    (validationResult.isValid <=> validationResult.errors = <<>>)
C7_Witness ==
  /\ Shown
  /\ validationResult.isValid
  /\ Len(validationResult.warnings) >= 4

(***************************************************************************)
(* Places in a document.  A path is the sequence of property names and     *)
(* array indices leading from the document to a value.                     *)
(***************************************************************************)
KeyStep(key) == [key |-> key, index |-> -1]
IndexStep(index) == [key |-> "#", index |-> index]
IsKeyIn(step, keys) == step.index = -1 /\ step.key \in keys
IsIndex(step) == step.index >= 0

RECURSIVE PathsOf(_)
PathsOf(x) ==
  {<<>>} \cup
    (IF x.t = "obj"
     THEN UNION {{<<KeyStep(k)>> \o q : q \in PathsOf(x.o[k])} : k \in DOMAIN x.o}
     ELSE IF x.t = "arr"
     THEN UNION {{<<IndexStep(i - 1)>> \o q : q \in PathsOf(x.a[i])} : i \in 1..Len(x.a)}
     ELSE {})

RECURSIVE At(_, _)
At(x, path) ==
  IF path = <<>> THEN x
  ELSE IF IsIndex(path[1]) THEN At(x.a[path[1].index + 1], Tail(path))
  ELSE At(x.o[path[1].key], Tail(path))

\* from position from on, path alternates a key of keys and an index
Alternates(path, from, keys) ==
  /\ (Len(path) - from + 1) % 2 = 0
  /\ \A j \in from..Len(path) :
       IF (j - from) % 2 = 0 THEN IsKeyIn(path[j], keys) ELSE IsIndex(path[j])

NestingKeys == {"pages", "groups", "menu"}
\* the entries the scan visits: those of navigation's pages, groups, tabs,
\* anchors, dropdowns and global.anchors and of the same five arrays of a
\* versions or languages entry, and below an entry so visited those of its
\* pages, groups and menu
VisitedEntry(path) ==
  /\ Len(path) >= 3 /\ path[1] = KeyStep("navigation")
  /\ \/ IsKeyIn(path[2], TopKeys) /\ IsIndex(path[3]) /\ Alternates(path, 4, NestingKeys)
     \/ /\ Len(path) >= 5
        /\ IsKeyIn(path[2], {"versions", "languages"}) /\ IsIndex(path[3])
        /\ IsKeyIn(path[4], TopKeys) /\ IsIndex(path[5])
        /\ Alternates(path, 6, NestingKeys)
     \/ /\ Len(path) >= 4
        /\ path[2] = KeyStep("global") /\ path[3] = KeyStep("anchors") /\ IsIndex(path[4])
        /\ Alternates(path, 5, NestingKeys)

\* the entries of the navigation tree under any nesting of the keys the claim lists
AnyNestingKeys ==
  {"pages", "groups", "menu", "tabs", "anchors", "dropdowns", "versions", "languages", "global"}
AnyEntry(path) ==
  /\ Len(path) >= 3 /\ path[1] = KeyStep("navigation")
  /\ IsIndex(path[Len(path)])
  /\ \A j \in 2..Len(path) : IsIndex(path[j]) \/ IsKeyIn(path[j], AnyNestingKeys)

StringsIn(doc) == {At(doc, q).s : q \in {r \in PathsOf(doc) : At(doc, r).t = "str"}}
PageEntries(doc, path, Entry(_)) ==
  {q \in PathsOf(doc) : Entry(q) /\ At(doc, q) = Str(path)}
HrefEntries(doc, href, Entry(_)) ==
  {q \in PathsOf(doc) :
     /\ Entry(q) /\ At(doc, q).t = "obj"
     /\ "href" \in DOMAIN At(doc, q).o
     /\ At(doc, q).o["href"] = Str(href)}

\* the parts of a reserved-path warning
PageMarker == " page '"
HrefMarker == " href '"
IsReservedWarning(w) ==
  /\ w # <<>> /\ w[Len(w)] = ReservedTail[1]
  /\ \E k \in 1..Len(w) : w[k] \in {PageMarker, HrefMarker}
MarkerAt(w) == CHOOSE k \in 1..Len(w) : w[k] \in {PageMarker, HrefMarker}
WarningContext(w) == SubSeq(w, 1, MarkerAt(w) - 1)
WarningPath(w) == SubSeq(w, MarkerAt(w) + 1, Len(w) - 1)
WarningsNaming(warnings, marker, path) ==
  {i \in 1..Len(warnings) :
     /\ IsReservedWarning(warnings[i])
     /\ warnings[i][MarkerAt(warnings[i])] = marker
     /\ WarningPath(warnings[i]) = path}

\* every string has as many page / href warnings as it has entries among Entry
\* with a segment mcp (hrefs: relative ones only), and no other string is named
OneWarningPerEntry(doc, warnings, Entry(_)) ==
  /\ \A str \in StringsIn(doc) :
       /\ Cardinality(WarningsNaming(warnings, PageMarker, str))
            = (IF HasMcpSegment(str) THEN Cardinality(PageEntries(doc, str, Entry)) ELSE 0)
       /\ Cardinality(WarningsNaming(warnings, HrefMarker, str))
            = (IF HasMcpSegment(str) /\ ~StartsWith(str, Http)
               THEN Cardinality(HrefEntries(doc, str, Entry)) ELSE 0)
  /\ \A i \in 1..Len(warnings) :
       IsReservedWarning(warnings[i]) => WarningPath(warnings[i]) \in StringsIn(doc)

\* the entries of a pages array under any nesting of the keys the claim lists
AnyPagesEntry(path) == AnyEntry(path) /\ path[Len(path) - 1] = KeyStep("pages")

\* C8 (as claimed): every string page entry and relative href anywhere in the
\* navigation tree, under any nesting of pages, groups, menu, tabs, anchors,
\* dropdowns, versions, languages or global anchors, that has a segment mcp
\* gets a reserved-path warning of its own naming it; strings without such a
\* segment get none.
C8_OneWarningAnywhere ==
  (Validated /\ parsedConfig.t = "obj") =>
    \A str \in StringsIn(parsedConfig) :
      LET pages == Cardinality(WarningsNaming(validationResult.warnings, PageMarker, str))
          hrefs == Cardinality(WarningsNaming(validationResult.warnings, HrefMarker, str))
      IN IF HasMcpSegment(str)
         THEN /\ pages >= Cardinality(PageEntries(parsedConfig, str, AnyPagesEntry))
              /\ pages <= Cardinality(PageEntries(parsedConfig, str, AnyEntry))
              /\ hrefs = (IF StartsWith(str, Http) THEN 0
                          ELSE Cardinality(HrefEntries(parsedConfig, str, AnyEntry)))
         ELSE pages = 0 /\ hrefs = 0

\* C8 (amended): the same for the entries the scan visits: the entries of
\* navigation's pages, groups, tabs, anchors, dropdowns and global.anchors, of
\* the pages, groups, tabs, anchors, dropdowns of a versions or languages
\* entry, and below these under any nesting of pages, groups and menu.
C8_OneWarningPerVisitedEntry ==
  (Validated /\ parsedConfig.t = "obj") =>
    OneWarningPerEntry(parsedConfig, validationResult.warnings, VisitedEntry)
C8_Witness ==
  /\ Validated /\ parsedConfig.t = "obj"
  /\ \E q \in PathsOf(parsedConfig) :
       /\ Len(q) = 9 /\ q[6].key = "menu" /\ VisitedEntry(q)
       /\ At(parsedConfig, q) = Str(P_mcp)
  /\ Cardinality(WarningsNaming(validationResult.warnings, PageMarker, P_mcp)) = 1

\* C9: an href that begins with 'http' never produces a reserved-path warning,
\* even when one of its segments is mcp, on any node at any depth.
C9_ExternalHrefExempt ==
  Shown =>
    \A i \in 1..Len(validationResult.warnings) :
      LET w == validationResult.warnings[i]
      IN (IsReservedWarning(w) /\ w[MarkerAt(w)] = HrefMarker) => ~StartsWith(WarningPath(w), Http)
C9_Witness ==
  /\ Validated /\ parsedConfig.t = "obj"
  /\ \E q \in PathsOf(parsedConfig) :
       Len(q) >= 5 /\ q \in HrefEntries(parsedConfig, H_external, VisitedEntry)
  /\ WarningsNaming(validationResult.warnings, HrefMarker, H_external) = {}

Contains(list, part) ==
  \E i \in 1..(Len(list) - Len(part) + 1) : SubSeq(list, i, i + Len(part) - 1) = part
DiscriminatorKeys == <<"group", "tab", "anchor", "dropdown", "item">>
IsNamedNode(x) ==
  x.t = "obj" /\ \E i \in 1..5 : Truthy(Get(x, DiscriminatorKeys[i]))
NodeName(x) ==
  TemplateString(Get(x, DiscriminatorKeys[CHOOSE i \in 1..5 :
                                            /\ Truthy(Get(x, DiscriminatorKeys[i]))
                                            /\ \A j \in 1..(i - 1) : ~Truthy(Get(x, DiscriminatorKeys[j]))]))
\* the visited entries that raise a warning: pages, and nodes through their href
WarnedEntries(doc) ==
  {q \in PathsOf(doc) :
     /\ VisitedEntry(q)
     /\ \/ At(doc, q).t = "str" /\ HasMcpSegment(At(doc, q).s)
        \/ /\ At(doc, q).t = "obj" /\ Get(At(doc, q), "href").t = "str"
           /\ HasMcpSegment(Get(At(doc, q), "href").s)
           /\ ~StartsWith(Get(At(doc, q), "href").s, Http)}
\* the named nodes enclosing the entry at q
NamedAncestors(doc, q) ==
  {n \in 3..(Len(q) - 1) : IsNamedNode(At(doc, SubSeq(q, 1, n)))}
Nearest(named) == CHOOSE n \in named : \A m \in named : m <= n
\* context names the nearest named node enclosing the entry at q; the node
\* that holds an href counts as enclosing it or not, as the reader prefers
NamesNearest(doc, q, context) ==
  LET named == NamedAncestors(doc, q)
      self == At(doc, q).t = "obj" /\ IsNamedNode(At(doc, q))
  IN \/ self /\ Contains(context, NodeName(At(doc, q)))
     \/ named # {} /\ Contains(context, NodeName(At(doc, SubSeq(q, 1, Nearest(named)))))
     \/ named = {}
          /\ ((Len(q) = 3 /\ q[2] = KeyStep("pages")) => context = <<"Root navigation">>)

\* C10: a reserved-path warning carries as context the name of the nearest
\* enclosing node that has a group / tab / anchor / dropdown / item key, a
\* warning for an entry of the root pages carries 'Root navigation', and no
\* warning has an empty or 'undefined' context.
C10_ContextIsNearestNamedNode ==
  (Validated /\ parsedConfig.t = "obj") =>
    /\ \A i \in 1..Len(validationResult.warnings) :
         LET w == validationResult.warnings[i]
         IN IsReservedWarning(w) =>
              WarningContext(w) # <<>> /\ ~Includes(WarningContext(w), "undefined")
    /\ \A q \in WarnedEntries(parsedConfig) :
         (Cardinality(WarnedEntries(parsedConfig)) = 1
            /\ Len(validationResult.warnings) >= 1
            /\ IsReservedWarning(validationResult.warnings[1])) =>
           NamesNearest(parsedConfig, q, WarningContext(validationResult.warnings[1]))

\* list without the items equal to m
Except(list, m) == SelectSeq(list, LAMBDA e : e # m)

\* C11: a document without navigation gets the navigation-required error once,
\* and apart from it the errors and the warnings of the same document with an
\* empty navigation object.
C11_AbsentNavigation ==
  (Validated /\ parsedConfig.t = "obj" /\ "navigation" \notin DOMAIN parsedConfig.o) =>
    LET other == validateDocsJson(With(parsedConfig, "navigation", EmptyObj))
    IN /\ other # Thrown
       /\ Count(validationResult.errors, NavigationRequired) = 1
       /\ Except(validationResult.errors, NavigationRequired) = other.errors
       /\ validationResult.warnings = other.warnings
C11_Witness ==
  /\ Validated /\ parsedConfig.t = "obj" /\ "navigation" \notin DOMAIN parsedConfig.o
  /\ Count(validationResult.errors, NavigationRequired) = 1
  /\ Count(validationResult.errors, InvalidTheme(Str(<<"b", "o", "g", "u", "s">>))) = 1
  /\ \E i \in 1..Len(validationResult.warnings) : validationResult.warnings[i] = LogoNudge

IsInvalidThemeError(e) == e # <<>> /\ e[1] = "Invalid theme '"
\* how many errors of the list come from the theme check
ThemeErrors(errors) ==
  Cardinality({i \in 1..Len(errors) : errors[i] = ThemeRequired \/ IsInvalidThemeError(errors[i])})
IsValidTheme(theme) ==
  theme.t = "str"
    /\ theme.s \in {Chars_mint, Chars_maple, Chars_palm, Chars_willow, Chars_linden,
                    Chars_almond, Chars_aspen}
\* the one theme error is the invalid-theme error: it holds the offending value
\* and the seven valid names
NamesInvalidTheme(errors, theme) ==
  /\ ThemeErrors(errors) = 1
  /\ \E i \in 1..Len(errors) :
       /\ IsInvalidThemeError(errors[i])
       /\ Contains(errors[i], TemplateString(theme))
       /\ \A name \in {Chars_mint, Chars_maple, Chars_palm, Chars_willow, Chars_linden,
                       Chars_almond, Chars_aspen} : Contains(errors[i], name)

\* C12 (as claimed): the theme check gives the theme-required error, once, when
\* theme is missing, the invalid-theme error, once, with the offending value and
\* the seven valid names when theme is present and not one of the seven, and no
\* error when theme is one of the seven.
C12_ThemeCheck ==
  (Validated /\ parsedConfig.t = "obj") =>
    LET theme == Get(parsedConfig, "theme")
        errors == validationResult.errors
    IN IF "theme" \notin DOMAIN parsedConfig.o
       THEN ThemeErrors(errors) = 1 /\ Count(errors, ThemeRequired) = 1
       ELSE IF IsValidTheme(theme) THEN ThemeErrors(errors) = 0
       ELSE NamesInvalidTheme(errors, theme)

\* C12 (amended): the same, the theme-required error being given when theme is
\* missing or has an empty value (null, false, 0 or the empty string), and the
\* invalid-theme error for every other value that is not one of the seven.
C12_ThemeCheckEmptyIsMissing ==
  (Validated /\ parsedConfig.t = "obj") =>
    LET theme == Get(parsedConfig, "theme")
        errors == validationResult.errors
    IN IF "theme" \notin DOMAIN parsedConfig.o \/ EmptyValue(theme)
       THEN ThemeErrors(errors) = 1 /\ Count(errors, ThemeRequired) = 1
       ELSE IF IsValidTheme(theme) THEN ThemeErrors(errors) = 0
       ELSE NamesInvalidTheme(errors, theme)
C12_Witness ==
  /\ Validated
  /\ Get(parsedConfig, "theme") = Str(<<"b", "o", "g", "u", "s">>)
  /\ validationResult.errors = <<InvalidTheme(Str(<<"b", "o", "g", "u", "s">>))>>

\* the document of a state, pasted into the editor, whether or not its
\* validation came to an end
Pasted == mounted /\ parsedConfig.t = "obj"
\* how many errors of the list come from the colors.primary check
PrimaryErrors(errors) ==
  Cardinality({i \in 1..Len(errors) : errors[i] \in {PrimaryRequired, PrimaryInvalid}})
\* the document with a well-formed colors.primary and neither light nor dark
WithPlainColors(doc) == With(doc, "colors", Obj("primary" :> Str(ValidPrimary)))

\* C13: the colors.primary check gives the required error, once, when colors or
\* colors.primary is missing, the valid-hex-color error, once, when
\* colors.primary is present and is not '#' followed by six hexadecimal digits,
\* and no error when it is; for every document, the rest of which validates.
C13_PrimaryCheck ==
  (Pasted /\ validateDocsJson(WithPlainColors(parsedConfig)) # Thrown
     /\ Get(Get(parsedConfig, "colors"), "light") = Undef
     /\ Get(Get(parsedConfig, "colors"), "dark") = Undef) =>
    LET colors == Get(parsedConfig, "colors")
        primary == Get(colors, "primary")
    IN /\ Shown
       /\ IF colors = Undef \/ primary = Undef
          THEN /\ PrimaryErrors(validationResult.errors) = 1
               /\ Count(validationResult.errors, PrimaryRequired) = 1
          ELSE IF primary.t = "str" /\ MatchesHexColor(primary.s)
          THEN PrimaryErrors(validationResult.errors) = 0
          ELSE /\ PrimaryErrors(validationResult.errors) = 1
               /\ Count(validationResult.errors, PrimaryInvalid) = 1

\* C14: colors.light and colors.dark each add nothing when absent or empty, nothing when
\* a six-hex-digit color, and exactly one error for that key (so isValid is
\* false) when present and anything else, whatever the other key and
\* colors.primary are; for every document, the rest of which validates.
C14_OptionalColors ==
  (Pasted /\ validateDocsJson(WithPlainColors(parsedConfig)) # Thrown
     /\ Get(parsedConfig, "colors").t = "obj"
     /\ Get(Get(parsedConfig, "colors"), "primary").t \in {"undef", "str"}) =>
    /\ Shown
    /\ \A mode \in {"light", "dark"} :
         LET value == Get(Get(parsedConfig, "colors"), mode)
         IN IF value = Undef \/ EmptyValue(value) \/ (value.t = "str" /\ MatchesHexColor(value.s))
            THEN Count(validationResult.errors, ModeInvalid(mode)) = 0
            ELSE /\ Count(validationResult.errors, ModeInvalid(mode)) = 1
                 /\ ~validationResult.isValid

EntriesOf(list) == IF list.t = "arr" THEN list.a ELSE <<>>
ObjectEntries(list) == {i \in DOMAIN EntriesOf(list) : EntriesOf(list)[i].t = "obj"}
Carries(entry, key) == key \in DOMAIN entry.o /\ ~EmptyValue(entry.o[key])
TabNameErrors(errors, i) ==
  Cardinality({k \in DOMAIN errors :
                 errors[k] \in {MissingProperty("Navigation tab", i - 1, "tab"),
                                MissingProperty("Navigation tab", i - 1, "name")}})
\* C15: in every validation result produced, an entry i of navigation.tabs that
\* carries a tab key or a name key gets no missing-name error, and an entry
\* that carries neither gets exactly one.
C15_TabOrLegacyName ==
  Validated =>
    \A i \in ObjectEntries(Get(Get(parsedConfig, "navigation"), "tabs")) :
      TabNameErrors(validationResult.errors, i) =
        IF Carries(Get(Get(parsedConfig, "navigation"), "tabs").a[i], "tab")
             \/ Carries(Get(Get(parsedConfig, "navigation"), "tabs").a[i], "name")
        THEN 0 ELSE 1

IsGroupPagesError(e) == e # <<>> /\ e[Len(e)] = "' is missing 'pages' array"
GroupPagesErrors(errors) == Cardinality({k \in DOMAIN errors : IsGroupPagesError(errors[k])})
HasPagesArray(entry) == "pages" \in DOMAIN entry.o /\ entry.o["pages"].t = "arr"
\* C16: for every document whose navigation.groups is an array of objects, a
\* result is produced in which entry i gets the index error exactly when it has
\* no group name, there is one pages error per entry whose pages is absent or
\* not an array, and no pages error names its group 'undefined'.
C16_GroupEntries ==
  (Pasted /\ Get(Get(parsedConfig, "navigation"), "groups").t = "arr"
     /\ DOMAIN parsedConfig.o = DOMAIN BaseDoc(EmptyObj).o
     /\ DOMAIN Get(parsedConfig, "navigation").o = {"groups"}
     /\ ObjectEntries(Get(Get(parsedConfig, "navigation"), "groups"))
          = DOMAIN Get(Get(parsedConfig, "navigation"), "groups").a
     /\ \A i \in DOMAIN Get(Get(parsedConfig, "navigation"), "groups").a :
          DOMAIN Get(Get(parsedConfig, "navigation"), "groups").a[i].o \subseteq {"group", "pages"}) =>
    /\ Shown
    /\ \A i \in DOMAIN Get(Get(parsedConfig, "navigation"), "groups").a :
         Count(validationResult.errors, MissingProperty("Navigation group", i - 1, "group"))
           = IF Carries(Get(Get(parsedConfig, "navigation"), "groups").a[i], "group") THEN 0 ELSE 1
    /\ GroupPagesErrors(validationResult.errors)
         = Cardinality({i \in DOMAIN Get(Get(parsedConfig, "navigation"), "groups").a :
                          ~HasPagesArray(Get(Get(parsedConfig, "navigation"), "groups").a[i])})
    /\ Count(validationResult.errors, GroupMissingPages(EmptyObj)) = 0

LanguagesOf(doc) == Get(Get(doc, "navigation"), "languages")
\* a key that is absent, or present with an empty value (null, false, 0, '')
Missing(x) == x = Undef \/ EmptyValue(x)
CodeOf(entry) == IF entry.t = "obj" THEN Get(entry, "language") ELSE Undef
Supported(code) == code.t = "str" /\ \E k \in DOMAIN validLanguages : validLanguages[k] = code.s
IsUnsupportedWarning(w) == w # <<>> /\ w[1] = "Language code '"
LanguageErrors(errors) ==
  Cardinality({k \in DOMAIN errors : Len(errors[k]) > 1 /\ errors[k][1] = "Navigation language"})
\* C17: for every document that is a passing one plus a navigation.languages
\* array, a result is produced in which entry i gets the index error exactly
\* when it has no (or an empty) language code, every present code outside the supported list
\* gets one warning per entry carrying it, codes inside the list get none, and
\* isValid is false only if some entry has no code.
C17_LanguageEntries ==
  (Pasted /\ parsedConfig \in LanguageDocs) =>
    /\ Shown
    /\ \A i \in DOMAIN LanguagesOf(parsedConfig).a :
         Count(validationResult.errors, MissingProperty("Navigation language", i - 1, "language"))
           = IF Missing(CodeOf(LanguagesOf(parsedConfig).a[i])) THEN 1 ELSE 0
    /\ LanguageErrors(validationResult.errors)
         = Cardinality({i \in DOMAIN LanguagesOf(parsedConfig).a :
                          Missing(CodeOf(LanguagesOf(parsedConfig).a[i]))})
    /\ \A code \in LanguageCodes :
         Count(validationResult.warnings, LanguageUnsupported(code))
           = IF Supported(code) \/ Missing(code) THEN 0
             ELSE Cardinality({i \in DOMAIN LanguagesOf(parsedConfig).a :
                                 CodeOf(LanguagesOf(parsedConfig).a[i]) = code})
    /\ Cardinality({k \in DOMAIN validationResult.warnings :
                      IsUnsupportedWarning(validationResult.warnings[k])})
         = Cardinality({i \in DOMAIN LanguagesOf(parsedConfig).a :
                          /\ ~Missing(CodeOf(LanguagesOf(parsedConfig).a[i]))
                          /\ ~Supported(CodeOf(LanguagesOf(parsedConfig).a[i]))})
    /\ validationResult.isValid
         = (\A i \in DOMAIN LanguagesOf(parsedConfig).a :
              ~Missing(CodeOf(LanguagesOf(parsedConfig).a[i])))

GlobalAnchorsIn(doc) == Get(Get(Get(doc, "navigation"), "global"), "anchors")
HrefOf(entry) == Get(entry, "href")
IsExternal(href) == href.t = "str" /\ StartsWith(href.s, Http)
\* the errors the entries of a global anchors list get, in order, as claimed
RECURSIVE ClaimedGlobalAnchorErrors(_, _)
ClaimedGlobalAnchorErrors(list, i) ==
  IF i > Len(list) THEN <<>>
  ELSE (IF Missing(Get(list[i], "anchor"))
        THEN <<MissingProperty("Global anchor", i - 1, "anchor")>> ELSE <<>>)
       \o (IF Missing(HrefOf(list[i])) THEN <<GlobalAnchorMissingHref(list[i])>>
           ELSE IF ~IsExternal(HrefOf(list[i])) THEN <<GlobalAnchorNotExternal(list[i])>>
           ELSE <<>>)
       \o ClaimedGlobalAnchorErrors(list, i + 1)
\* C18: for every document that is a passing one plus a navigation.global.anchors
\* array of objects, a result is produced whose errors are, entry by entry: the
\* index error when anchor is missing, then the 'missing href' error when href
\* is missing (absent or empty) or else the 'must be external' error when href does not start
\* with http; nothing for an entry with an anchor and an http href.
C18_GlobalAnchorEntries ==
  (Pasted /\ parsedConfig \in GlobalAnchorDocs) =>
    /\ Shown
    /\ validationResult.errors = ClaimedGlobalAnchorErrors(GlobalAnchorsIn(parsedConfig).a, 1)

Permitted(key, value) ==
  CASE key \in {"description", "$schema"} -> value.t = "str"
    [] key \in {"favicon", "logo"} ->
         \/ value.t = "str"
         \/ /\ value.t = "obj"
            /\ \A k \in DOMAIN value.o : value.o[k].t = "str"
            /\ Get(value, "href") \in {Undef, Str(H_secure)}
    [] OTHER -> key \notin DOMAIN BaseDoc(EmptyObj).o \cup {"integrations"}
Passes(result) == result # Thrown /\ result.errors = <<>> /\ result.isValid
\* C19: a document that is a passing document plus one permitted field (an
\* unknown top-level key with any value, or description, $schema, favicon, logo
\* with a value of the documented shape) is validated with no error.
C19_AddedFieldKeepsPassing ==
  Pasted =>
    \A key \in DOMAIN parsedConfig.o :
      (Permitted(key, parsedConfig.o[key]) /\ Passes(validateDocsJson(Without(parsedConfig, key)))) =>
        Shown /\ validationResult.errors = <<>> /\ validationResult.isValid

WarningCount(m) == Count(validationResult.warnings, m)
One(condition) == IF condition THEN 1 ELSE 0
HasIconExtension(s) ==
  \E ext \in {<<".", "i", "c", "o">>, <<".", "p", "n", "g">>, <<".", "s", "v", "g">>} :
    EndsWith(Lower(s), ext)
IsAbsoluteHttpUrl(s) ==
  \E scheme \in {<<"h", "t", "t", "p">>, <<"h", "t", "t", "p", "s">>} :
    StartsWith(s, scheme \o <<":", "/", "/">>)
Ga4IdOf(doc) == Get(Get(Get(doc, "integrations"), "ga4"), "measurementId")
GtmIdOf(doc) == Get(Get(Get(doc, "integrations"), "gtm"), "containerId")
\* C21: for a document that is a valid one plus values for favicon (a string),
\* logo.href, integrations.ga4.measurementId and integrations.gtm.containerId, a
\* result is produced that has no error and isValid = TRUE; it has exactly one
\* warning for a favicon not ending in .ico/.png/.svg, one for a logo.href that
\* is not an absolute http(s) URL, at most one per integration id and exactly
\* one for an id that does not start with its prefix; none for a favicon or
\* href of the right format.
C21_FormatViolationsWarnOnly ==
  (Pasted /\ parsedConfig \in FormatDocs) =>
    /\ Shown
    /\ validationResult.errors = <<>> /\ validationResult.isValid
    /\ WarningCount(FaviconWarning)
         = One(Get(parsedConfig, "favicon") # Undef
                 /\ ~HasIconExtension(Get(parsedConfig, "favicon").s))
    /\ WarningCount(LogoHrefWarning)
         = One(/\ Get(Get(parsedConfig, "logo"), "href") # Undef
               /\ ~(/\ Get(Get(parsedConfig, "logo"), "href").t = "str"
                    /\ IsAbsoluteHttpUrl(Get(Get(parsedConfig, "logo"), "href").s)))
    /\ WarningCount(Ga4Warning) <= One(Ga4IdOf(parsedConfig) # Undef)
    /\ WarningCount(GtmWarning) <= One(GtmIdOf(parsedConfig) # Undef)
    /\ (/\ Ga4IdOf(parsedConfig) # Undef
        /\ ~(Ga4IdOf(parsedConfig).t = "str" /\ StartsWith(Ga4IdOf(parsedConfig).s, <<"G", "-">>)))
         => WarningCount(Ga4Warning) = 1
    /\ (/\ GtmIdOf(parsedConfig) # Undef
        /\ ~(/\ GtmIdOf(parsedConfig).t = "str"
             /\ StartsWith(GtmIdOf(parsedConfig).s, <<"G", "T", "M", "-">>)))
         => WarningCount(GtmWarning) = 1

\* the reserved-path markers <<kind, path>> met when walking a navigation tree
\* depth-first, array entries in order, the keys of a node in nodeOrder, the
\* keys of navigation in topOrder, the keys of a version or language in
\* scopeOrder
RECURSIVE WalkItems(_, _, _)
RECURSIVE WalkKeys(_, _, _)
WalkNode(item, nodeOrder) ==
  IF item.t = "str"
  THEN IF HasMcpSegment(item.s) THEN <<(<<PageMarker, item.s>>)>> ELSE <<>>
  ELSE IF item.t = "obj" THEN WalkKeys(item, nodeOrder, 1)
  ELSE <<>>
WalkItems(items, nodeOrder, i) ==
  IF items.t # "arr" \/ i > Len(items.a) THEN <<>>
  ELSE WalkNode(items.a[i], nodeOrder) \o WalkItems(items, nodeOrder, i + 1)
WalkKeys(item, nodeOrder, k) ==
  IF k > Len(nodeOrder) THEN <<>>
  ELSE (IF nodeOrder[k] = "href"
        THEN IF /\ Get(item, "href").t = "str"
                /\ ~StartsWith(Get(item, "href").s, Http)
                /\ HasMcpSegment(Get(item, "href").s)
             THEN <<(<<HrefMarker, Get(item, "href").s>>)>>
             ELSE <<>>
        ELSE WalkItems(Get(item, nodeOrder[k]), nodeOrder, 1))
       \o WalkKeys(item, nodeOrder, k + 1)
RECURSIVE WalkScope(_, _, _, _)
WalkScope(scope, scopeOrder, nodeOrder, k) ==
  IF k > Len(scopeOrder) THEN <<>>
  ELSE WalkItems(Get(scope, scopeOrder[k]), nodeOrder, 1)
         \o WalkScope(scope, scopeOrder, nodeOrder, k + 1)
RECURSIVE WalkScopes(_, _, _, _)
WalkScopes(scopes, scopeOrder, nodeOrder, i) ==
  IF scopes.t # "arr" \/ i > Len(scopes.a) THEN <<>>
  ELSE WalkScope(scopes.a[i], scopeOrder, nodeOrder, 1)
         \o WalkScopes(scopes, scopeOrder, nodeOrder, i + 1)
RECURSIVE WalkNavigation(_, _, _, _, _)
WalkNavigation(navigation, topOrder, scopeOrder, nodeOrder, k) ==
  IF k > Len(topOrder) THEN <<>>
  ELSE (IF topOrder[k] \in {"versions", "languages"}
        THEN WalkScopes(Get(navigation, topOrder[k]), scopeOrder, nodeOrder, 1)
        ELSE IF topOrder[k] = "global"
        THEN WalkItems(Get(Get(navigation, "global"), "anchors"), nodeOrder, 1)
        ELSE WalkItems(Get(navigation, topOrder[k]), nodeOrder, 1))
       \o WalkNavigation(navigation, topOrder, scopeOrder, nodeOrder, k + 1)

\* the order in which the keys appear in the document's text
Appearance(keys) == SelectSeq(KeyOrder, LAMBDA k : k \in keys)
\* the order in which the checks are written
TopCheckOrder ==
  <<"pages", "groups", "tabs", "anchors", "dropdowns", "versions", "languages", "global">>
ScopeCheckOrder == <<"pages", "groups", "tabs", "anchors", "dropdowns">>
NodeCheckOrder == <<"pages", "groups", "menu", "href">>
Elements(seq) == {seq[i] : i \in DOMAIN seq}

RECURSIVE ReservedMarkers(_, _)
ReservedMarkers(warnings, i) ==
  IF i > Len(warnings) THEN <<>>
  ELSE (IF IsReservedWarning(warnings[i])
        THEN <<(<<warnings[i][MarkerAt(warnings[i])], WarningPath(warnings[i])>>)>>
        ELSE <<>>)
       \o ReservedMarkers(warnings, i + 1)
LaterWarnings ==
  {LogoHrefWarning, FaviconWarning, Ga4Warning, GtmWarning,
   SchemaNudge, DescriptionNudge, FaviconNudge, LogoNudge}
ReservedBeforeLater(warnings) ==
  \A i, j \in DOMAIN warnings :
    (warnings[i] \in LaterWarnings /\ IsReservedWarning(warnings[j])) => j < i

\* C22 (as claimed): in every validation result produced, the reserved-path
\* warnings are those of a depth-first walk of navigation with array entries
\* in order and the keys of every object in their order of appearance in the
\* document, and all precede the warnings of the asset, integration and
\* best-practice checks.
C22_DocumentOrder ==
  (Validated /\ Get(parsedConfig, "navigation").t = "obj") =>
    /\ ReservedMarkers(validationResult.warnings, 1)
         = WalkNavigation(Get(parsedConfig, "navigation"), Appearance(Elements(TopCheckOrder)),
                          Appearance(Elements(ScopeCheckOrder)),
                          Appearance(Elements(NodeCheckOrder)), 1)
    /\ ReservedBeforeLater(validationResult.warnings)
\* C22 (amended): the same, with the keys of every object taken in the order in
\* which the checks are written (navigation: pages, groups, tabs, anchors,
\* dropdowns, versions, languages, global.anchors; a node: pages, groups, menu,
\* href) whatever their order of appearance in the document.
C22_CheckOrder ==
  (Validated /\ Get(parsedConfig, "navigation").t = "obj") =>
    /\ ReservedMarkers(validationResult.warnings, 1)
         = WalkNavigation(Get(parsedConfig, "navigation"), TopCheckOrder, ScopeCheckOrder,
                          NodeCheckOrder, 1)
    /\ ReservedBeforeLater(validationResult.warnings)
C22_Witness ==
  /\ Validated /\ parsedConfig \in OrderDocs
  /\ Len(ReservedMarkers(validationResult.warnings, 1)) = 12
  /\ Count(validationResult.warnings, FaviconWarning) = 1

MaxIndex == 3
IsThemeError(e) == e = ThemeRequired \/ IsInvalidThemeError(e)
IsPrimaryError(e) == e \in {PrimaryRequired, PrimaryInvalid}
IsOptionalColorError(e) == e \in {ModeInvalid("light"), ModeInvalid("dark")}
\* the place of the required-field errors in the order the claim gives
RequiredRank(e) ==
  IF IsThemeError(e) THEN 1
  ELSE IF e = NameRequired THEN 2
  ELSE IF IsPrimaryError(e) THEN 3
  ELSE IF e = NavigationRequired THEN 4
  ELSE 0
\* the errors naming an index of one array come in ascending index order
AscendingIndexes(errors) ==
  \A i, j \in DOMAIN errors :
    \A m, n \in 0..MaxIndex :
      (/\ i < j
       /\ Len(errors[i]) > 4 /\ Len(errors[j]) > 4
       /\ errors[i] = MissingProperty(errors[i][1], m, errors[i][Len(errors[i]) - 1])
       /\ errors[j] = MissingProperty(errors[i][1], n, errors[i][Len(errors[i]) - 1]))
        => m < n
CheckRank(e) ==
  IF IsThemeError(e) THEN 1
  ELSE IF e = NameRequired THEN 2
  ELSE IF IsPrimaryError(e) THEN 3
  ELSE IF e = ModeInvalid("light") THEN 4
  ELSE IF e = ModeInvalid("dark") THEN 5
  ELSE IF e = NavigationRequired THEN 6
  ELSE IF e[1] \in {"Navigation group", "Navigation group '"} THEN 7
  ELSE IF e[1] \in {"Navigation tab", "Menu item at index "} THEN 8
  ELSE IF e[1] = "Navigation anchor" THEN 9
  ELSE IF e[1] = "Navigation dropdown" THEN 10
  ELSE IF e[1] = "Navigation version" THEN 11
  ELSE IF e[1] = "Navigation language" THEN 12
  ELSE IF e[1] \in {"Global anchor", "Global anchor '"} THEN 13
  ELSE 0
ClaimedPrecedence == <<"group", "tab", "name", "anchor", "dropdown", "item">>
CarriesName(x) ==
  x.t = "obj" /\ \E i \in DOMAIN ClaimedPrecedence : Truthy(Get(x, ClaimedPrecedence[i]))
ClaimedName(x) ==
  Get(x, ClaimedPrecedence[CHOOSE i \in DOMAIN ClaimedPrecedence :
                             /\ Truthy(Get(x, ClaimedPrecedence[i]))
                             /\ \A j \in 1..(i - 1) : ~Truthy(Get(x, ClaimedPrecedence[j]))])
TopEntries(doc) ==
  {q \in PathsOf(doc) :
     /\ Len(q) = 3 /\ q[1] = KeyStep("navigation")
     /\ q[2] \in {KeyStep("groups"), KeyStep("tabs"), KeyStep("anchors"), KeyStep("dropdowns")}
     /\ IsIndex(q[3])}
\* C24: in every validation result produced, every node of the navigation tree
\* that carries a naming key has as renderer title, and as name in the
\* context of a warning, the value of its first key in the order group, tab /
\* name, anchor, dropdown, item; and the warning for a reserved page directly
\* under an entry of navigation.groups / tabs / anchors / dropdowns names the
\* entry by that value.
C24_OnePrecedence ==
  (Validated /\ parsedConfig.t = "obj") =>
    /\ \A q \in PathsOf(parsedConfig) :
         (q # <<>> /\ q[1] = KeyStep("navigation") /\ CarriesName(At(parsedConfig, q))) =>
           /\ title(At(parsedConfig, q)) = ClaimedName(At(parsedConfig, q))
           /\ ContextName(At(parsedConfig, q)) = title(At(parsedConfig, q))
    /\ \A q \in TopEntries(parsedConfig) :
         (CarriesName(At(parsedConfig, q)) /\ Get(At(parsedConfig, q), "pages").t = "arr") =>
           \A i \in DOMAIN Get(At(parsedConfig, q), "pages").a :
             LET page == Get(At(parsedConfig, q), "pages").a[i]
             IN (page.t = "str" /\ HasMcpSegment(page.s)) =>
                  Count(validationResult.warnings,
                        PageWarning(<<"Navigation item '">>
                                      \o TemplateString(ClaimedName(At(parsedConfig, q))) \o <<"'">>,
                                    page.s)) > 0

VersionsOf(doc) == Get(Get(doc, "navigation"), "versions")
RECURSIVE ClaimedVersionErrors(_, _)
ClaimedVersionErrors(list, i) ==
  IF i > Len(list) THEN <<>>
  ELSE (IF list[i].t # "obj" \/ Missing(Get(list[i], "version"))
        THEN <<MissingProperty("Navigation version", i - 1, "version")>> ELSE <<>>)
       \o ClaimedVersionErrors(list, i + 1)
\* C25: for every document that is a passing one plus a navigation.versions
\* array, a result is produced whose errors are exactly one index error per
\* entry without a version label, in order: whatever the entries hold under
\* pages, groups, tabs, anchors, dropdowns adds no error.
C25_VersionsScanOnly ==
  (Pasted /\ parsedConfig \in VersionDocs) =>
    /\ Shown
    /\ validationResult.errors = ClaimedVersionErrors(VersionsOf(parsedConfig).a, 1)

Alphanumeric(c) ==
  \/ c \in DigitChars
  \/ \E i \in 1..26 : c \in {UpperLetters[i], LowerLetters[i]}
\* prefix followed by one or more alphanumeric characters
ClaimedIdForm(id, prefix) ==
  /\ id.t = "str"
  /\ StartsWith(id.s, prefix) /\ Len(id.s) > Len(prefix)
  /\ \A i \in (Len(prefix) + 1)..Len(id.s) : Alphanumeric(id.s[i])
\* C26: for a document that is a valid one plus integration ids, a result is
\* produced with no warning for a ga4 measurementId made of G- and one or more
\* letters of either case or digits, nor for a gtm containerId made of GTM- and
\* one or more of them, and exactly one warning for any other present id.
C26_IntegrationIds ==
  (Pasted /\ parsedConfig \in FormatDocs) =>
    /\ Shown
    /\ WarningCount(Ga4Warning)
         = One(Ga4IdOf(parsedConfig) # Undef /\ ~ClaimedIdForm(Ga4IdOf(parsedConfig), <<"G", "-">>))
    /\ WarningCount(GtmWarning)
         = One(/\ GtmIdOf(parsedConfig) # Undef
               /\ ~ClaimedIdForm(GtmIdOf(parsedConfig), <<"G", "T", "M", "-">>))

OffendingVariants(logo) ==
  {mode \in {"light", "dark"} : Get(logo, mode) # Undef /\ Get(logo, mode).t # "str"}
\* the warnings a logo object adds: those of the document less those of the
\* same document without the logo's variants
LogoWarnings(doc, result) ==
  Len(result.warnings) - Len(validateDocsJson(With(doc, "logo", Obj("light" :> Str(F_icon)))).warnings)
\* C27: for a document that is a valid one plus a logo object, a result is
\* produced with no error and with one warning more per light / dark sub-key
\* whose value is present and not a string; string-valued sub-keys add none.
C27_LogoVariants ==
  (Pasted /\ parsedConfig \in LogoVariantDocs) =>
    /\ Shown
    /\ validationResult.errors = <<>>
    /\ LogoWarnings(parsedConfig, validationResult)
         = Cardinality(OffendingVariants(Get(parsedConfig, "logo")))

IsParseErrorItem(e) == e # <<>> /\ e[1] = ParseErrorPrefix
WellFormed(text) == NonBlank(text) /\ JSONparse(text).ok
\* C28: whenever the text is well-formed JSON, a result is shown and none of
\* its errors is a 'JSON Parse Error' item.
C28_ParseErrorOnlyForMalformed ==
  (mounted /\ WellFormed(jsonInput)) =>
    /\ Shown
    /\ \A i \in DOMAIN validationResult.errors : ~IsParseErrorItem(validationResult.errors[i])

\* C29: in every reachable state of the sandbox, the configuration preview is
\* rendered only if the current text parses to the document held, the result
\* shown is the validation result of that document, and it has no errors.
C29_PreviewOnlyForValid ==
  ConfigurationPreview =>
    /\ WellFormed(jsonInput)
    /\ parsedConfig = JSONparse(jsonInput).val
    /\ validationResult = validateDocsJson(parsedConfig)
    /\ validationResult.errors = <<>>
C29_Witness ==
  /\ ConfigurationPreview
  /\ parsedConfig = examples["api"]
  /\ validationResult.warnings # <<>>

CannedDocuments == {examples[example] : example \in DOMAIN examples} \cup {defaultConfig}
NoReservedWarning(warnings) == \A i \in DOMAIN warnings : ~IsReservedWarning(warnings[i])
\* C30: whenever the text is the serialisation of one of the four examples or
\* of the default configuration (set by loadExample from any earlier text, or
\* by the mount effect), the document held is that document and the result
\* shown is its validation result, with isValid = TRUE, no errors and no
\* reserved-path warning; and a step that loads an example sets the text to
\* its serialisation.
C30_CannedDocumentsValid ==
  /\ [](\A doc \in CannedDocuments :
          (mounted /\ jsonInput = JSONstringify(doc)) =>
            /\ Shown /\ parsedConfig = doc
            /\ validationResult = validateDocsJson(doc)
            /\ validationResult.isValid /\ validationResult.errors = <<>>
            /\ NoReservedWarning(validationResult.warnings))
  /\ [][\A example \in DOMAIN examples :
          loadExample(example) => jsonInput' = JSONstringify(examples[example])]_vars
  /\ [][MountEffect => jsonInput' = JSONstringify(defaultConfig)]_vars
\* the multilingual example loaded over a text that showed a parse error
C30_Witness ==
  /\ Shown /\ jsonInput = JSONstringify(examples["multilingual"])
  /\ validationResult.isValid
====
